---- MODULE Spec2Model ----
(***************************************************************************)
(* TMXeditor: the alignment document (models.py), the undoable commands   *)
(* (undo.py), the editing session that pushes them on an undo stack        *)
(* (main_window.py) and the TMX codec (tmx_io.py).                         *)
(*                                                                         *)
(* A text is a sequence of one-character strings.  Row and position       *)
(* arguments are the 0-based integers of the Python code; the sequences   *)
(* of TLA+ are 1-based, so row r of the code is rows[r + 1] here.          *)
(***************************************************************************)
EXTENDS Integers, Sequences, FiniteSets, TLC

VARIABLES
    rows,       \* AlignmentDocument.rows of the document being edited
    cmd,        \* command algebra: the one command object under study
    phase,      \* command algebra: where that command is in its life
    pre,        \* command algebra: rows when the command was constructed
    post,       \* command algebra: rows and command after the first redo()
    stack,      \* session: the commands QUndoStack holds, oldest first
    index,      \* session: QUndoStack.index(), the number of applied commands
    snaps,      \* session: snaps[k] is rows as they were when command k was pushed
    win,        \* session: MainWindow._dirty, the clean index of the QUndoStack,
                \* the document's file_path, and what the last file operation did
    fs,         \* write: the files at the destination, temporary and backup paths
    w,          \* write: where write_tmx is, its arguments and its local fd
    seen,       \* write: what a concurrent reader last read at the destination path
    tree,       \* codec: the element tree of the TMX file at the path
    doc,        \* codec: the AlignmentDocument fields other than rows
    codec,      \* codec: how far the parse / write / parse round trip is
    parsed0,    \* codec: the document as parse_tmx first returned it
    call        \* document API: the last call made, its arguments and its outcome

cmdVars == <<cmd, phase, pre, post>>
sessVars == <<stack, index, snaps, win>>
writeVars == <<fs, w, seen>>
codecVars == <<tree, doc, codec, parsed0>>
apiVars == <<call>>
ioVars == <<writeVars, codecVars, apiVars>>
vars == <<rows, cmdVars, sessVars, ioVars>>

(***************************************************************************)
(* Bounds of the model.                                                    *)
(***************************************************************************)
CmdMaxRows == 2     \* rows of the documents the command algebra starts from
MaxPos == 5         \* largest split position tried (texts have up to 4 characters)
MaxCmds == 2        \* session: commands on the undo stack

(***************************************************************************)
(* Python values.                                                          *)
(***************************************************************************)
None == [none |-> TRUE]

Min(a, b) == IF a < b THEN a ELSE b
Max(a, b) == IF a > b THEN a ELSE b

\* A slice bound as Python clamps it: negative bounds count from the end.
PySliceBound(n, p) == IF p < 0 THEN Max(0, n + p) ELSE Min(p, n)

\* s[:p]
PySliceTo(s, p) == SubSeq(s, 1, PySliceBound(Len(s), p))

\* s[p:]
PySliceFrom(s, p) == SubSeq(s, PySliceBound(Len(s), p) + 1, Len(s))

\* list[i]: the 1-based place of index i, negative indices counting from the
\* end; 0 when the access raises IndexError.
PyIndex(n, i) ==
    IF 0 <= i /\ i < n THEN i + 1
    ELSE IF i < 0 /\ 0 - n <= i THEN n + i + 1
    ELSE 0

\* list.insert(i, x): the index is clamped, never an error.
PyInsert(s, i, x) ==
    LET k == PySliceBound(Len(s), i)
    IN  SubSeq(s, 1, k) \o <<x>> \o SubSeq(s, k + 1, Len(s))

\* list.pop(i) leaves this list (the caller checks PyIndex first).
PyRemove(s, i) ==
    LET k == PyIndex(Len(s), i)
    IN  SubSeq(s, 1, k - 1) \o SubSeq(s, k + 1, Len(s))

(***************************************************************************)
(* models.py                                                               *)
(***************************************************************************)
AlignmentRow(s, t) ==
    [source |-> s, target |-> t, tu_element |-> None, extra_tuvs |-> <<>>,
     source_modified |-> FALSE, target_modified |-> FALSE]

row_count(rs) == Len(rs)

\* rows[row] does not raise
InRange(rs, row) == PyIndex(Len(rs), row) # 0

get_cell(rs, row, col) ==
    LET r == rs[PyIndex(Len(rs), row)]
    IN  IF col = 0 THEN r.source ELSE r.target

\* a set_cell that raises the flag only when the text changes
set_cell_FlagIfChanged(rs, row, col, text) ==
    LET k == PyIndex(Len(rs), row)
    IN  IF col = 0
        THEN [rs EXCEPT ![k].source = text,
                        ![k].source_modified = @ \/ rs[k].source # text]
        ELSE [rs EXCEPT ![k].target = text,
                        ![k].target_modified = @ \/ rs[k].target # text]

set_cell(rs, row, col, text) ==
    LET k == PyIndex(Len(rs), row)
    IN  IF col = 0
        THEN [rs EXCEPT ![k].source = text, ![k].source_modified = TRUE]
        ELSE [rs EXCEPT ![k].target = text, ![k].target_modified = TRUE]

insert_row(rs, at, r) == PyInsert(rs, at, r)

remove_row(rs, at) == PyRemove(rs, at)

(***************************************************************************)
(* undo.py: every command is a record of the fields its __init__ sets;     *)
(* redo and undo return the document and the command as they leave them.  *)
(***************************************************************************)
SplitCommand(rs, row, col, pos) ==
    [type |-> "Split", row |-> row, col |-> col, pos |-> pos,
     original_text |-> get_cell(rs, row, col),
     filled_existing |-> FALSE, new_row |-> None]

\* a split whose right part always starts one character after pos
SplitRight_DropsOne(c) == PySliceFrom(PySliceFrom(c.original_text, c.pos), 1)

\* a split that strips every leading space of the right part (right.lstrip())
SplitRight_StripsAll(c) ==
    LET right == PySliceFrom(c.original_text, c.pos)
        first == IF \E i \in 1..Len(right) : right[i] # " "
                 THEN CHOOSE i \in 1..Len(right) :
                          right[i] # " " /\ \A j \in 1..(i - 1) : right[j] = " "
                 ELSE Len(right) + 1
    IN  SubSeq(right, first, Len(right))

SplitRight(c) ==
    LET right == PySliceFrom(c.original_text, c.pos)
    IN  IF Len(right) > 0 /\ right[1] = " " THEN Tail(right) ELSE right

\* a split that never fills the blank below: it always inserts a row
SplitRedo_NeverFills(rs, c) ==
    LET left == PySliceTo(c.original_text, c.pos)
        right == SplitRight(c)
        rs1 == set_cell(rs, c.row, c.col, left)
        new_row == IF c.col = 0 THEN AlignmentRow(right, <<>>)
                   ELSE AlignmentRow(<<>>, right)
    IN  [rows |-> insert_row(rs1, c.row + 1, new_row),
         cmd |-> [c EXCEPT !.filled_existing = FALSE, !.new_row = new_row]]

\* a split that inserts its new row at row instead of row + 1
SplitRedo_InsertsAbove(rs, c) ==
    LET left == PySliceTo(c.original_text, c.pos)
        right == SplitRight(c)
        rs1 == set_cell(rs, c.row, c.col, left)
        next_row == c.row + 1
        new_row == IF c.col = 0 THEN AlignmentRow(right, <<>>)
                   ELSE AlignmentRow(<<>>, right)
    IN  IF next_row < row_count(rs1) /\ get_cell(rs1, next_row, c.col) = <<>>
        THEN [rows |-> set_cell(rs1, next_row, c.col, right),
              cmd |-> [c EXCEPT !.filled_existing = TRUE]]
        ELSE [rows |-> insert_row(rs1, c.row, new_row),
              cmd |-> [c EXCEPT !.filled_existing = FALSE, !.new_row = new_row]]

\* a split whose new row takes over the extra <tuv> of the row it splits
SplitRedo_CopiesExtras(rs, c) ==
    LET left == PySliceTo(c.original_text, c.pos)
        right == SplitRight(c)
        rs1 == set_cell(rs, c.row, c.col, left)
        next_row == c.row + 1
        fresh == IF c.col = 0 THEN AlignmentRow(right, <<>>)
                 ELSE AlignmentRow(<<>>, right)
        new_row == [fresh EXCEPT !.extra_tuvs = rs[PyIndex(Len(rs), c.row)].extra_tuvs]
    IN  IF next_row < row_count(rs1) /\ get_cell(rs1, next_row, c.col) = <<>>
        THEN [rows |-> set_cell(rs1, next_row, c.col, right),
              cmd |-> [c EXCEPT !.filled_existing = TRUE]]
        ELSE [rows |-> insert_row(rs1, c.row + 1, new_row),
              cmd |-> [c EXCEPT !.filled_existing = FALSE, !.new_row = new_row]]

SplitRedo(rs, c) ==
    LET left == PySliceTo(c.original_text, c.pos)
        right == SplitRight(c)
        rs1 == set_cell(rs, c.row, c.col, left)
        next_row == c.row + 1
        new_row == IF c.col = 0 THEN AlignmentRow(right, <<>>)
                   ELSE AlignmentRow(<<>>, right)
    IN  IF next_row < row_count(rs1) /\ get_cell(rs1, next_row, c.col) = <<>>
        THEN [rows |-> set_cell(rs1, next_row, c.col, right),
              cmd |-> [c EXCEPT !.filled_existing = TRUE]]
        ELSE [rows |-> insert_row(rs1, c.row + 1, new_row),
              cmd |-> [c EXCEPT !.filled_existing = FALSE, !.new_row = new_row]]

SplitUndoRaises(rs, c) == ~c.filled_existing /\ ~InRange(rs, c.row + 1)

\* a split undo that forgets to clear the cell the split filled
SplitUndo_LeavesFilled(rs, c) ==
    LET rs1 == IF c.filled_existing THEN rs ELSE remove_row(rs, c.row + 1)
    IN  [rows |-> set_cell(rs1, c.row, c.col, c.original_text), cmd |-> c]

SplitUndo(rs, c) ==
    LET rs1 == IF c.filled_existing
               THEN set_cell(rs, c.row + 1, c.col, <<>>)
               ELSE remove_row(rs, c.row + 1)
    IN  [rows |-> set_cell(rs1, c.row, c.col, c.original_text), cmd |-> c]

MergeCommand(rs, row, col) ==
    [type |-> "Merge", row |-> row, col |-> col, other_col |-> 1 - col,
     orig_active |-> get_cell(rs, row, col),
     orig_next_active |-> get_cell(rs, row + 1, col),
     orig_next_other |-> get_cell(rs, row + 1, 1 - col),
     row_removed |-> FALSE, removed_row |-> None]

\* a join that puts the space in even when one side is empty
MergedText_AlwaysSpace(a, b) == a \o <<" ">> \o b

MergedText(a, b) == IF a # <<>> /\ b # <<>> THEN a \o <<" ">> \o b ELSE a \o b

\* a merge that blanks both columns of the row it keeps
MergeRedo_ClearsRow(rs, c) ==
    LET next_row_idx == c.row + 1
        merged == MergedText(c.orig_active, c.orig_next_active)
        rs1 == set_cell(rs, c.row, c.col, merged)
    IN  IF c.orig_next_other # <<>>
        THEN [rows |-> set_cell(set_cell(rs1, next_row_idx, c.col, <<>>),
                                next_row_idx, 1 - c.col, <<>>),
              cmd |-> [c EXCEPT !.row_removed = FALSE]]
        ELSE [rows |-> remove_row(rs1, next_row_idx),
              cmd |-> [c EXCEPT !.row_removed = TRUE,
                                !.removed_row = rs1[PyIndex(Len(rs1), next_row_idx)]]]

\* a merge that removes the next row whatever its other column holds
MergeRedo_AlwaysRemoves(rs, c) ==
    LET next_row_idx == c.row + 1
        merged == MergedText(c.orig_active, c.orig_next_active)
        rs1 == set_cell(rs, c.row, c.col, merged)
    IN  [rows |-> remove_row(rs1, next_row_idx),
         cmd |-> [c EXCEPT !.row_removed = TRUE,
                           !.removed_row = rs1[PyIndex(Len(rs1), next_row_idx)]]]

MergeRedo(rs, c) ==
    LET next_row_idx == c.row + 1
        merged == MergedText(c.orig_active, c.orig_next_active)
        rs1 == set_cell(rs, c.row, c.col, merged)
    IN  IF c.orig_next_other # <<>>
        THEN [rows |-> set_cell(rs1, next_row_idx, c.col, <<>>),
              cmd |-> [c EXCEPT !.row_removed = FALSE]]
        ELSE [rows |-> remove_row(rs1, next_row_idx),
              cmd |-> [c EXCEPT !.row_removed = TRUE,
                                !.removed_row = rs1[PyIndex(Len(rs1), next_row_idx)]]]

\* a merge undo that marks the cell it restores as not modified
MergeUndo_ClearsFlag(rs, c) ==
    LET rs1 == IF c.row_removed
               THEN insert_row(rs, c.row + 1, c.removed_row)
               ELSE set_cell(rs, c.row + 1, c.col, c.orig_next_active)
        rs2 == set_cell(rs1, c.row, c.col, c.orig_active)
        i == PyIndex(Len(rs2), c.row)
    IN  [rows |-> IF c.col = 0 THEN [rs2 EXCEPT ![i].source_modified = FALSE]
                  ELSE [rs2 EXCEPT ![i].target_modified = FALSE],
         cmd |-> c]

\* a merge undo that puts back a new row holding the removed row's texts
MergeUndo_InsertsNewRow(rs, c) ==
    LET rs1 == IF c.row_removed
               THEN insert_row(rs, c.row + 1,
                               AlignmentRow(c.removed_row.source, c.removed_row.target))
               ELSE set_cell(rs, c.row + 1, c.col, c.orig_next_active)
    IN  [rows |-> set_cell(rs1, c.row, c.col, c.orig_active), cmd |-> c]

\* a merge undo that forgets to restore the merged cell
MergeUndo_KeepsMerged(rs, c) ==
    LET rs1 == IF c.row_removed
               THEN insert_row(rs, c.row + 1, c.removed_row)
               ELSE set_cell(rs, c.row + 1, c.col, c.orig_next_active)
    IN  [rows |-> rs1, cmd |-> c]

MergeUndo(rs, c) ==
    LET rs1 == IF c.row_removed
               THEN insert_row(rs, c.row + 1, c.removed_row)
               ELSE set_cell(rs, c.row + 1, c.col, c.orig_next_active)
    IN  [rows |-> set_cell(rs1, c.row, c.col, c.orig_active), cmd |-> c]

MoveCellCommand(row, col, direction) ==
    [type |-> "Move", row |-> row, col |-> col, direction |-> direction]

\* a move that overwrites the target cell and leaves its own cell as it was
MoveSwap_Copies(rs, c) ==
    LET target == c.row + c.direction
        a == get_cell(rs, c.row, c.col)
    IN  [rows |-> set_cell(rs, target, c.col, a), cmd |-> c]

\* a move that exchanges both columns of the two rows
MoveSwap_SwapsRows(rs, c) ==
    LET target == c.row + c.direction
        a == rs[PyIndex(Len(rs), c.row)]
        b == rs[PyIndex(Len(rs), target)]
        rs1 == set_cell(set_cell(rs, c.row, 0, b.source), c.row, 1, b.target)
    IN  [rows |-> set_cell(set_cell(rs1, target, 0, a.source), target, 1, a.target),
         cmd |-> c]

\* redo and undo of MoveCellCommand are the same swap
MoveSwap(rs, c) ==
    LET target == c.row + c.direction
        a == get_cell(rs, c.row, c.col)
        b == get_cell(rs, target, c.col)
    IN  [rows |-> set_cell(set_cell(rs, c.row, c.col, b), target, c.col, a),
         cmd |-> c]

EditCellCommand(row, col, old_text, new_text) ==
    [type |-> "Edit", row |-> row, col |-> col, old |-> old_text, new |-> new_text]

EditRedo(rs, c) == [rows |-> set_cell(rs, c.row, c.col, c.new), cmd |-> c]

\* an edit undo that empties the cell
EditUndo_ClearsCell(rs, c) == [rows |-> set_cell(rs, c.row, c.col, <<>>), cmd |-> c]

\* an edit undo that also takes back the cell's modified flag
EditUndo_ClearsFlag(rs, c) ==
    LET k == PyIndex(Len(rs), c.row)
        rs1 == set_cell(rs, c.row, c.col, c.old)
    IN  [rows |-> IF c.col = 0 THEN [rs1 EXCEPT ![k].source_modified = FALSE]
                  ELSE [rs1 EXCEPT ![k].target_modified = FALSE],
         cmd |-> c]

EditUndo(rs, c) == [rows |-> set_cell(rs, c.row, c.col, c.old), cmd |-> c]

DeleteEmptyRowCommand(row) ==
    [type |-> "Delete", row |-> row, removed_row |-> None]

DeleteRedo(rs, c) ==
    [rows |-> remove_row(rs, c.row),
     cmd |-> [c EXCEPT !.removed_row = rs[PyIndex(Len(rs), c.row)]]]

\* a delete undo that puts a new blank row where the removed row was
DeleteUndo_InsertsBlank(rs, c) ==
    [rows |-> insert_row(rs, c.row, AlignmentRow(<<>>, <<>>)), cmd |-> c]

DeleteUndo(rs, c) == [rows |-> insert_row(rs, c.row, c.removed_row), cmd |-> c]

\* the macro command QUndoStack.beginMacro puts on the stack: the commands
\* pushed until endMacro are its children
MacroCommand(children) == [type |-> "Macro", children |-> children]

\* QUndoCommand.redo() of a command with children: redo() of each child,
\* first to last; the children are EditCellCommand objects
RECURSIVE MacroRedoRows(_, _)
MacroRedoRows(rs, children) ==
    IF children = <<>> THEN rs
    ELSE MacroRedoRows(EditRedo(rs, Head(children)).rows, Tail(children))

MacroRedo(rs, c) == [rows |-> MacroRedoRows(rs, c.children), cmd |-> c]

\* QUndoCommand.undo() of a command with children: undo() of each child,
\* last to first
RECURSIVE MacroUndoRows(_, _)
MacroUndoRows(rs, children) ==
    IF children = <<>> THEN rs
    ELSE MacroUndoRows(EditUndo(rs, children[Len(children)]).rows,
                       SubSeq(children, 1, Len(children) - 1))

\* a macro undo that undoes only the child pushed last
MacroUndo_LastChildOnly(rs, c) ==
    [rows |-> IF c.children = <<>> THEN rs
              ELSE EditUndo(rs, c.children[Len(c.children)]).rows,
     cmd |-> c]

MacroUndo(rs, c) == [rows |-> MacroUndoRows(rs, c.children), cmd |-> c]

\* redo() raises IndexError before it changes anything
RedoRaises(rs, c) ==
    CASE c.type = "Split" -> ~InRange(rs, c.row)
      [] c.type = "Merge" -> ~InRange(rs, c.row) \/ ~InRange(rs, c.row + 1)
      [] c.type = "Move" -> ~InRange(rs, c.row) \/ ~InRange(rs, c.row + c.direction)
      [] c.type = "Edit" -> ~InRange(rs, c.row)
      [] c.type = "Delete" -> ~InRange(rs, c.row)
      [] c.type = "Macro" -> FALSE

\* an undo() whose assert statements are not executed (python -O)
UndoRaises_AssertsOff(rs, c) ==
    CASE c.type = "Split" -> SplitUndoRaises(rs, c)
      [] c.type = "Merge" -> ~c.row_removed /\ (~InRange(rs, c.row + 1) \/ ~InRange(rs, c.row))
      [] c.type = "Move" -> ~InRange(rs, c.row) \/ ~InRange(rs, c.row + c.direction)
      [] c.type = "Edit" -> ~InRange(rs, c.row)
      [] c.type = "Delete" -> FALSE
      [] c.type = "Macro" -> FALSE

\* undo() raises before it changes anything: IndexError from the first
\* access of the document, AssertionError from assert ... is not None
UndoRaises(rs, c) ==
    CASE c.type = "Split" -> SplitUndoRaises(rs, c)
      [] c.type = "Merge" -> IF c.row_removed THEN c.removed_row = None
                             ELSE ~InRange(rs, c.row + 1) \/ ~InRange(rs, c.row)
      [] c.type = "Move" -> ~InRange(rs, c.row) \/ ~InRange(rs, c.row + c.direction)
      [] c.type = "Edit" -> ~InRange(rs, c.row)
      [] c.type = "Delete" -> c.removed_row = None
      [] c.type = "Macro" -> FALSE

Redo(rs, c) ==
    CASE c.type = "Split" -> SplitRedo(rs, c)
      [] c.type = "Merge" -> MergeRedo(rs, c)
      [] c.type = "Move" -> MoveSwap(rs, c)
      [] c.type = "Edit" -> EditRedo(rs, c)
      [] c.type = "Delete" -> DeleteRedo(rs, c)
      [] c.type = "Macro" -> MacroRedo(rs, c)

Undo(rs, c) ==
    CASE c.type = "Split" -> SplitUndo(rs, c)
      [] c.type = "Merge" -> MergeUndo(rs, c)
      [] c.type = "Move" -> MoveSwap(rs, c)
      [] c.type = "Edit" -> EditUndo(rs, c)
      [] c.type = "Delete" -> DeleteUndo(rs, c)
      [] c.type = "Macro" -> MacroUndo(rs, c)

(***************************************************************************)
(* Views of a document used by the properties.                             *)
(***************************************************************************)
\* the texts of a document: per row, <<source, target>>
Texts(rs) == [i \in 1..Len(rs) |-> <<rs[i].source, rs[i].target>>]

\* one column of a document, top to bottom
Column(rs, col) == [i \in 1..Len(rs) |-> IF col = 0 THEN rs[i].source ELSE rs[i].target]

(***************************************************************************)
(* Command algebra: one command object, constructed with any arguments on  *)
(* any small document, then redo(), undo(), redo() as QUndoStack calls     *)
(* them (push calls redo at once).                                         *)
(***************************************************************************)
CmdTexts == {<<>>, <<"b">>, <<"a", " ", " ", "b">>}

\* a row as parse_tmx builds it of a <tu> whose <seg> are empty, with a
\* <tuv> of a third language, after an edit of its source cell
CmdParsedRow ==
    LET extra == [lang |-> <<"f", "r">>,
                  seg |-> [present |-> TRUE,
                           nodes |-> <<[tag |-> "#text", text |-> <<"c">>]>>]]
    IN  [source |-> <<>>, target |-> <<>>,
         tu_element |-> [tuvs |-> <<extra>>, indented |-> TRUE],
         extra_tuvs |-> <<extra>>,
         source_modified |-> TRUE, target_modified |-> FALSE]

CmdRowPool ==
    {AlignmentRow(s, t) : s \in CmdTexts, t \in CmdTexts} \cup {CmdParsedRow}

SeqsUpTo(S, n) == UNION {[1..k -> S] : k \in 0..n}

CmdDocs == SeqsUpTo(CmdRowPool, CmdMaxRows)

NoCmd == [type |-> "none"]

\* a path that names no file, and a file holding the bytes b
Absent == [exists |-> FALSE, data |-> <<>>]
File(b) == [exists |-> TRUE, data |-> b]

\* no write_tmx call is in progress
WriteIdle ==
    /\ fs = [dest |-> Absent, tmp |-> Absent, bak |-> Absent]
    /\ w = [pc |-> "idle"]
    /\ seen = Absent

\* no TMX file is being parsed or written
CodecIdle ==
    /\ tree = None
    /\ doc = None
    /\ codec = [pc |-> "idle"]
    /\ parsed0 = None

\* no call of the document's methods is on record
NoCall == [op |-> "none"]

\* MainWindow.__init__: not dirty, a new QUndoStack (clean at index 0), no
\* document and so no file path; saved_at is the index at the last
\* successful save or load and last the outcome of the last file operation
NoOp == [op |-> "none"]
WinIdle ==
    win = [dirty |-> FALSE, clean_index |-> 0, file_path |-> None,
           saved_at |-> 0, last |-> NoOp]
ApiIdle == call = NoCall

IoIdle == WriteIdle /\ CodecIdle /\ ApiIdle

CmdInit ==
    /\ IoIdle
    /\ rows \in CmdDocs
    /\ cmd = NoCmd
    /\ phase = "idle"
    /\ pre = <<>>
    /\ post = [rows |-> <<>>, cmd |-> NoCmd]
    /\ stack = <<>>
    /\ index = 0
    /\ snaps = <<>>
    /\ WinIdle

Construct(c) ==
    /\ phase = "idle"
    /\ cmd' = c
    /\ phase' = "constructed"
    /\ pre' = rows
    /\ UNCHANGED <<rows, post, sessVars, ioVars>>

NewSplit ==
    \E row \in 0..(Len(rows) - 1), col \in {0, 1}, pos \in (0 - 1)..MaxPos :
        Construct(SplitCommand(rows, row, col, pos))

NewMerge ==
    \E row \in 0..(Len(rows) - 1), col \in {0, 1} :
        /\ InRange(rows, row + 1)
        /\ Construct(MergeCommand(rows, row, col))

NewMove ==
    \E row \in 0..(Len(rows) - 1), col \in {0, 1}, direction \in {0 - 1, 1} :
        Construct(MoveCellCommand(row, col, direction))

NewEdit ==
    \E row \in 0..(Len(rows) - 1), col \in {0, 1}, old \in CmdTexts, new \in CmdTexts :
        Construct(EditCellCommand(row, col, old, new))

NewDelete ==
    \E row \in 0..(Len(rows) - 1) :
        Construct(DeleteEmptyRowCommand(row))

\* the first redo(), made by QUndoStack.push right after construction
CmdDo ==
    /\ phase = "constructed"
    /\ ~RedoRaises(rows, cmd)
    /\ LET r == Redo(rows, cmd)
       IN  /\ rows' = r.rows
           /\ cmd' = r.cmd
           /\ post' = r
    /\ phase' = "applied"
    /\ UNCHANGED <<pre, sessVars, ioVars>>

CmdUndo ==
    /\ phase = "applied"
    /\ LET r == Undo(rows, cmd)
       IN  /\ rows' = r.rows
           /\ cmd' = r.cmd
    /\ phase' = "undone"
    /\ UNCHANGED <<pre, post, sessVars, ioVars>>

\* undo() called on a command that was never pushed: it runs on the fields
\* __init__ set
CmdUndoUnapplied ==
    /\ phase = "constructed"
    /\ ~UndoRaises(rows, cmd)
    /\ LET r == Undo(rows, cmd)
       IN  /\ rows' = r.rows
           /\ cmd' = r.cmd
    /\ phase' = "undone_unapplied"
    /\ UNCHANGED <<pre, post, sessVars, ioVars>>

\* that undo() raising
CmdUndoUnappliedRaises ==
    /\ phase = "constructed"
    /\ UndoRaises(rows, cmd)
    /\ phase' = "undo_raised"
    /\ UNCHANGED <<rows, cmd, pre, post, sessVars, ioVars>>

CmdRedo ==
    /\ phase = "undone"
    /\ LET r == Redo(rows, cmd)
       IN  /\ rows' = r.rows
           /\ cmd' = r.cmd
    /\ phase' = "reapplied"
    /\ UNCHANGED <<pre, post, sessVars, ioVars>>

CmdNext ==
    \/ NewSplit
    \/ NewMerge
    \/ NewMove
    \/ NewEdit
    \/ NewDelete
    \/ CmdDo
    \/ CmdUndo
    \/ CmdUndoUnapplied
    \/ CmdUndoUnappliedRaises
    \/ CmdRedo

SpecCmd == CmdInit /\ [][CmdNext]_vars

(***************************************************************************)
(* tmx_io.py: parser and writer.  A TMX file is the element tree lxml      *)
(* reads from it: an optional header with its srclang attribute and the    *)
(* <tu> children of <body>, each a list of <tuv> with a language attribute *)
(* and an optional <seg>.  A <seg> holds text nodes and inline elements in *)
(* document order.  Texts and language codes are sequences of characters.  *)
(* A <tu> is indented when the file has white-space text nodes between its *)
(* child elements, as a pretty-printed file has; a compact file has none.  *)
(* A file that is not well-formed XML has no tree; the root element has a  *)
(* local name and is in no namespace, in a namespace of its own (a prefix  *)
(* on the root only) or in a default namespace its children share.         *)
(***************************************************************************)
MaxTus == 2         \* <tu> elements of the files parsed

LangEn == <<"e", "n">>
LangTh == <<"t", "h">>
LangFr == <<"f", "r">>
LangUnknown == <<"u", "n", "k", "n", "o", "w", "n">>
LangAll == <<"*", "a", "l", "l", "*">>

TextNode(t) == [tag |-> "#text", text |-> t]
Elem(tag, t) == [tag |-> tag, text |-> t]
NoSeg == [present |-> FALSE, nodes |-> <<>>]
Seg(nodes) == [present |-> TRUE, nodes |-> nodes]
Tuv(lang, seg) == [lang |-> lang, seg |-> seg]
Tu(tuvs, indented) == [tuvs |-> tuvs, indented |-> indented]
\* a <header> holds its srclang attribute, its other attributes as a dict
\* and its <prop> and <note> children
HeaderAttribs == [creationtool |-> "OtherTool", adminlang |-> "fr"]
HeaderChildren == <<Elem("prop", <<"p">>), Elem("note", <<"n">>)>>
NoHeader == [present |-> FALSE, srclang |-> <<>>, attribs |-> <<>>, children |-> <<>>]
Header(srclang) ==
    [present |-> TRUE, srclang |-> srclang,
     attribs |-> HeaderAttribs, children |-> HeaderChildren]
Root(namespace, localname) == [namespace |-> namespace, localname |-> localname]
TagTmx == <<"t", "m", "x">>
\* a well-formed file <tmx><header/><body><tu/>...</body></tmx>
TmxFile(header, tus) ==
    [wellformed |-> TRUE, root |-> Root("none", TagTmx), body |-> TRUE,
     header |-> header, tus |-> tus]

\* str.lower() and str.strip() on the characters the language codes use
Lower(ch) ==
    CASE ch = "E" -> "e" [] ch = "N" -> "n" [] ch = "T" -> "t"
      [] ch = "H" -> "h" [] ch = "A" -> "a" [] ch = "L" -> "l"
      [] ch = "M" -> "m" [] ch = "X" -> "x"
      [] OTHER -> ch

IsSpace(ch) == ch \in {" ", "\n"}

RECURSIVE LStrip(_)
LStrip(t) == IF t # <<>> /\ IsSpace(Head(t)) THEN LStrip(Tail(t)) ELSE t

RECURSIVE RStrip(_)
RStrip(t) ==
    IF t # <<>> /\ IsSpace(t[Len(t)]) THEN RStrip(SubSeq(t, 1, Len(t) - 1)) ELSE t

normalize_lang(lang) ==
    LET t == RStrip(LStrip(lang)) IN [i \in 1..Len(t) |-> Lower(t[i])]

\* "".join(...) of a sequence of texts
RECURSIVE Join(_)
Join(ts) == IF ts = <<>> THEN <<>> ELSE Head(ts) \o Join(Tail(ts))

\* _seg_text: every text of the <seg> in document order, "" without a <seg>
seg_text(tuv) ==
    IF ~tuv.seg.present THEN <<>>
    ELSE Join([i \in 1..Len(tuv.seg.nodes) |-> tuv.seg.nodes[i].text])

\* the language attributes of root.iter("tuv") that are not empty, normalised
CountedLangs(t) ==
    LET raw == Join([i \in 1..Len(t.tus) |->
                        [j \in 1..Len(t.tus[i].tuvs) |-> t.tus[i].tuvs[j].lang]])
        kept == SelectSeq(raw, LAMBDA l : l # <<>>)
    IN  [i \in 1..Len(kept) |-> normalize_lang(kept[i])]

\* the keys of a Counter, in the order they were first counted
RECURSIVE CounterKeys(_)
CounterKeys(ls) ==
    IF ls = <<>> THEN <<>>
    ELSE LET before == CounterKeys(SubSeq(ls, 1, Len(ls) - 1))
             l == ls[Len(ls)]
         IN  IF \E i \in 1..Len(before) : before[i] = l
             THEN before ELSE Append(before, l)

\* Counter.most_common(): by count, largest first; ties in counting order
most_common(ls) ==
    LET keys == CounterKeys(ls)
        count(k) == Cardinality({i \in 1..Len(ls) : ls[i] = keys[k]})
        rank(k) == Cardinality({j \in 1..Len(keys) :
                       \/ count(j) > count(k)
                       \/ count(j) = count(k) /\ j < k})
    IN  [r \in 1..Len(keys) |-> keys[CHOOSE k \in 1..Len(keys) : rank(k) = r - 1]]

\* a detection that takes the header's srclang before it counts languages
detect_languages_HeaderFirst(t) ==
    LET mc == most_common(CountedLangs(t))
        hdr == IF t.header.present THEN normalize_lang(t.header.srclang) ELSE <<>>
        given == IF hdr = LangAll THEN <<>> ELSE hdr
        src_lang == IF given = <<>> THEN mc[1] ELSE given
        others == SelectSeq(mc, LAMBDA l : l # src_lang)
        tgt_lang == IF others = <<>> THEN LangUnknown ELSE others[1]
    IN  IF Len(mc) = 0 THEN <<LangEn, LangTh>>
        ELSE <<src_lang, tgt_lang>>

detect_languages(t) ==
    LET mc == most_common(CountedLangs(t))
        hdr == IF t.header.present THEN normalize_lang(t.header.srclang) ELSE <<>>
        given == IF hdr = LangAll THEN <<>> ELSE hdr
        src_lang == IF given = <<>> THEN mc[1] ELSE given
        others == SelectSeq(mc, LAMBDA l : l # src_lang)
        tgt_lang == IF others = <<>> THEN LangUnknown ELSE others[1]
    IN  IF Len(mc) = 0 THEN <<LangEn, LangTh>>
        ELSE IF Len(mc) = 1 THEN <<mc[1], LangUnknown>>
        ELSE <<src_lang, tgt_lang>>

\* the row parse_tmx makes of one <tu>
ParseTu(tu, source_lang, target_lang) ==
    LET acc[i \in 0..Len(tu.tuvs)] ==
            IF i = 0 THEN [source |-> <<>>, target |-> <<>>, extra_tuvs |-> <<>>]
            ELSE LET tuv == tu.tuvs[i]
                     normalized == normalize_lang(tuv.lang)
                     text == seg_text(tuv)
                 IN  IF normalized = source_lang
                     THEN [acc[i - 1] EXCEPT !.source = text]
                     ELSE IF normalized = target_lang
                     THEN [acc[i - 1] EXCEPT !.target = text]
                     ELSE [acc[i - 1] EXCEPT !.extra_tuvs = Append(@, tuv)]
        end == acc[Len(tu.tuvs)]
    IN  [source |-> end.source, target |-> end.target, tu_element |-> tu,
         extra_tuvs |-> end.extra_tuvs,
         source_modified |-> FALSE, target_modified |-> FALSE]

\* the tag parse_tmx compares with "tmx": the root's local name, lower-cased
root_tag(t) == [i \in 1..Len(t.root.localname) |-> Lower(t.root.localname[i])]

\* root.find("body"): a child is found under its bare name only when it is
\* in no namespace; the children of a root with a default namespace are not
body_found(t) == t.body /\ t.root.namespace # "default"

\* a parse that reads what it can of a file that is not well-formed
\* (an XMLParser with recover=True)
parse_tmx_raises_Recovers(t) ==
    IF root_tag(t) # TagTmx THEN "ValueError"
    ELSE IF ~body_found(t) THEN "ValueError"
    ELSE "none"

\* the exception parse_tmx raises, "none" when it returns a document
parse_tmx_raises(t) ==
    IF ~t.wellformed THEN "XMLSyntaxError"
    ELSE IF root_tag(t) # TagTmx THEN "ValueError"
    ELSE IF ~body_found(t) THEN "ValueError"
    ELSE "none"

\* the document parse_tmx returns when it does not raise
parse_tmx(t) ==
    LET langs == detect_languages(t)
    IN  [rows |-> [i \in 1..Len(t.tus) |-> ParseTu(t.tus[i], langs[1], langs[2])],
         source_lang |-> langs[1],
         target_lang |-> langs[2],
         header_attribs |-> IF t.header.present THEN t.header.attribs ELSE <<>>,
         header_element |-> t.header]

\* _find_tuv: the place of the first <tuv> of the language, 0 if there is none
find_tuv(tu, lang) ==
    LET hits == {i \in 1..Len(tu.tuvs) :
                    normalize_lang(tu.tuvs[i].lang) = normalize_lang(lang)}
    IN  IF hits = {} THEN 0 ELSE CHOOSE i \in hits : \A j \in hits : i <= j

\* what seg.text = text leaves in a <seg> without children
PlainSeg(text) == Seg(IF text = <<>> THEN <<>> ELSE <<TextNode(text)>>)

\* _update_seg_text: the <seg> (made if missing) holds the plain text only
update_seg_text(tuv, new_text) == [tuv EXCEPT !.seg = PlainSeg(new_text)]

\* the <tu> with the text of the language's <tuv> replaced, the <tuv> being
\* appended when the <tu> has none of that language
WithSegText(tu, lang, text) ==
    LET k == find_tuv(tu, lang)
    IN  IF k # 0
        THEN [tu EXCEPT !.tuvs[k] = update_seg_text(@, text)]
        ELSE [tu EXCEPT !.tuvs = Append(@, update_seg_text(Tuv(lang, NoSeg), text))]

build_tu_from_row(row, source_lang, target_lang) ==
    IF row.tu_element # None
    THEN LET tu0 == row.tu_element
             tu1 == IF row.source_modified
                    THEN WithSegText(tu0, source_lang, row.source) ELSE tu0
         IN  IF row.target_modified
             THEN WithSegText(tu1, target_lang, row.target) ELSE tu1
    ELSE Tu(<<Tuv(source_lang, PlainSeg(row.source)),
              Tuv(target_lang, PlainSeg(row.target))>> \o row.extra_tuvs,
            FALSE)

\* dict.setdefault(key, value)
setdefault(attribs, key, value) ==
    IF key \in DOMAIN attribs THEN attribs ELSE attribs @@ (key :> value)

\* the attributes write_tmx gives a header it makes, srclang aside
h_attribs(d) ==
    LET a1 == setdefault(d.header_attribs, "creationtool", "TMXEditor")
        a2 == setdefault(a1, "creationtoolversion", "0.1.0")
        a3 == setdefault(a2, "segtype", "sentence")
        a4 == setdefault(a3, "o-tmf", "TMXEditor")
        a5 == setdefault(a4, "adminlang", "en")
    IN  setdefault(a5, "datatype", "plaintext")

\* the header write_tmx puts in the tree: a copy of the preserved element
\* with srclang set, or a new element
built_header(d) ==
    IF d.header_element.present
    THEN [d.header_element EXCEPT !.srclang = d.source_lang]
    ELSE [present |-> TRUE, srclang |-> d.source_lang,
          attribs |-> h_attribs(d), children |-> <<>>]

\* a writer that copies the preserved header as it is
BuiltTree_CopiesHeader(rs, d) ==
    TmxFile(IF d.header_element.present THEN d.header_element ELSE built_header(d),
            [i \in 1..Len(rs) |->
                build_tu_from_row(rs[i], d.source_lang, d.target_lang)])

\* the tree write_tmx builds: the header, kept or made, carries the
\* document's source language; the body holds one <tu> per row
BuiltTree(rs, d) ==
    TmxFile(built_header(d),
            [i \in 1..Len(rs) |->
                build_tu_from_row(rs[i], d.source_lang, d.target_lang)])

\* the white space pretty_print=True puts before a child element
Indent == <<"\n", " ">>

\* etree.tostring(pretty_print=True): an element without a text node among
\* its children has its children put on lines of their own, so that a
\* reader of the output finds white-space text before and after them; an
\* element with a text node among its children is written as it is, and so
\* are all its descendants.
PrettySeg(seg) ==
    IF seg.nodes = <<>> \/ \E i \in 1..Len(seg.nodes) : seg.nodes[i].tag = "#text"
    THEN seg
    ELSE [seg EXCEPT !.nodes =
             [i \in 1..(2 * Len(seg.nodes) + 1) |->
                 IF i % 2 = 1 THEN TextNode(Indent) ELSE seg.nodes[i \div 2]]]

PrettyTu(tu) ==
    IF tu.indented THEN tu
    ELSE Tu([i \in 1..Len(tu.tuvs) |-> [tu.tuvs[i] EXCEPT !.seg = PrettySeg(@)]],
            TRUE)

\* the tree etree.parse reads back from the bytes etree.tostring wrote
Serialized(t) == [t EXCEPT !.tus = [i \in 1..Len(t.tus) |-> PrettyTu(t.tus[i])]]

(***************************************************************************)
(* main_window.py: the editing session.  Each handler checks its guards,   *)
(* builds one command on the current document and pushes it; QUndoStack    *)
(* push drops the undone commands, appends the command and calls redo().   *)
(* The current cell (view.current_row(), view.current_col()) is the user's *)
(* choice among the cells of the document.                                 *)
(***************************************************************************)
\* the files load_file opens: one <tu> with a third language beside source
\* and target, and one <tu> that has no target <tuv>
SessionFiles ==
    { TmxFile(Header(LangEn),
              <<Tu(<<Tuv(LangEn, Seg(<<TextNode(<<"a", " ", "b">>)>>)),
                     Tuv(LangTh, Seg(<<TextNode(<<"a", "b">>)>>)),
                     Tuv(LangFr, Seg(<<TextNode(<<"c">>)>>))>>, TRUE)>>),
      TmxFile(Header(LangEn),
              <<Tu(<<Tuv(LangEn, Seg(<<TextNode(<<"b">>)>>))>>, TRUE)>>) }

\* the rows parse_tmx makes of them
SessionDocs == {parse_tmx(f).rows : f \in SessionFiles}

\* the texts the session's dialogs and inline editor hand over
EditTexts == {<<>>}

\* a file path
Path(name) == [path |-> name]

\* the window after load_file(path) has returned True
Loaded(path) ==
    [dirty |-> FALSE, clean_index |-> 0, file_path |-> path,
     saved_at |-> 0, last |-> NoOp]

Init ==
    /\ IoIdle
    /\ rows \in SessionDocs
    /\ stack = <<>>
    /\ index = 0
    /\ snaps = <<>>
    /\ win = Loaded(Path("a.tmx"))
    /\ cmd = NoCmd
    /\ phase = "session"
    /\ pre = <<>>
    /\ post = [rows |-> <<>>, cmd |-> NoCmd]

\* a stack that tells its listeners only when it stops being clean
QSetIndex_SignalsDirtyOnly(wn, old, idx, clean) ==
    LET was_clean == old = wn.clean_index
        clean_index == IF clean THEN idx ELSE wn.clean_index
        is_clean == idx = clean_index
    IN  [wn EXCEPT !.clean_index = clean_index,
                   !.dirty = IF is_clean # was_clean /\ ~is_clean THEN TRUE ELSE @]

\* QUndoStack moving from index old to idx, setClean() when clean is true:
\* cleanChanged is emitted when the stack becomes or stops being clean, and
\* _on_clean_changed then sets _dirty = not clean
QSetIndex(wn, old, idx, clean) ==
    LET was_clean == old = wn.clean_index
        clean_index == IF clean THEN idx ELSE wn.clean_index
        is_clean == idx = clean_index
    IN  [wn EXCEPT !.clean_index = clean_index,
                   !.dirty = IF is_clean # was_clean THEN ~is_clean ELSE @]

\* QUndoStack.push and beginMacro drop the undone commands; a clean state
\* among them is lost
QTruncate(wn, idx) == [wn EXCEPT !.clean_index = IF @ > idx THEN 0 - 1 ELSE @]

\* the window after a command was pushed at index idx
QPushed(wn, idx) == [QSetIndex(QTruncate(wn, idx), idx, idx + 1, FALSE) EXCEPT !.last = NoOp]

\* _push_cmd: QUndoStack.push(cmd)
PushCmd(c) ==
    /\ index < MaxCmds
    /\ ~RedoRaises(rows, c)
    /\ LET r == Redo(rows, c)
       IN  /\ rows' = r.rows
           /\ stack' = Append(SubSeq(stack, 1, index), r.cmd)
           /\ snaps' = Append(SubSeq(snaps, 1, index), rows)
    /\ index' = index + 1
    /\ win' = QPushed(win, index)
    /\ UNCHANGED <<cmdVars, ioVars>>

OnInlineSplit ==
    \E row \in 0..(Len(rows) - 1), col \in {0, 1} :
      \E pos \in 0..Len(get_cell(rows, row, col)) :
        LET text == get_cell(rows, row, col)
        IN  /\ ~(text = <<>> \/ pos <= 0 \/ pos >= Len(text))
            /\ PushCmd(SplitCommand(rows, row, col, pos))

\* SplitDialog._accept refuses position 0 and positions >= len(text)
OpSplitDialog ==
    \E row \in 0..(Len(rows) - 1), col \in {0, 1} :
      \E pos \in 0..Len(get_cell(rows, row, col)) :
        LET text == get_cell(rows, row, col)
        IN  /\ text # <<>>
            /\ ~(pos = 0 \/ pos >= Len(text))
            /\ PushCmd(SplitCommand(rows, row, col, pos))

OpMerge ==
    \E row \in 0..(Len(rows) - 1), col \in {0, 1} :
        /\ ~(row + 1 >= row_count(rows))
        /\ ~(get_cell(rows, row, col) = <<>> /\ get_cell(rows, row + 1, col) = <<>>)
        /\ PushCmd(MergeCommand(rows, row, col))

OpMoveUp ==
    \E row \in 0..(Len(rows) - 1), col \in {0, 1} :
        /\ row # 0
        /\ PushCmd(MoveCellCommand(row, col, 0 - 1))

OpMoveDown ==
    \E row \in 0..(Len(rows) - 1), col \in {0, 1} :
        /\ ~(row + 1 >= row_count(rows))
        /\ PushCmd(MoveCellCommand(row, col, 1))

OpEditCell ==
    \E row \in 0..(Len(rows) - 1), col \in {0, 1}, new_text \in EditTexts :
        LET old_text == get_cell(rows, row, col)
        IN  /\ new_text # old_text
            /\ PushCmd(EditCellCommand(row, col, old_text, new_text))

\* the delegate hands over the text the cell showed when the editor opened,
\* and only when the new text differs from it
OnInlineEdit ==
    \E row \in 0..(Len(rows) - 1), col \in {0, 1}, new_text \in EditTexts :
        LET original_text == get_cell(rows, row, col)
        IN  /\ new_text # original_text
            /\ PushCmd(EditCellCommand(row, col, original_text, new_text))

\* a handler that deletes the current row whatever it holds
OpDeleteEmptyRow_AnyRow ==
    \E row \in 0..(Len(rows) - 1) : PushCmd(DeleteEmptyRowCommand(row))

OpDeleteEmptyRow ==
    \E row \in 0..(Len(rows) - 1) :
        /\ ~(get_cell(rows, row, 0) # <<>> \/ get_cell(rows, row, 1) # <<>>)
        /\ PushCmd(DeleteEmptyRowCommand(row))

\* str.lower(), str.find(sub, start) and str.replace(old, new) of Python, on
\* texts as sequences of characters; old is not empty
str_lower(text) == [i \in 1..Len(text) |-> Lower(text[i])]

str_find(text, sub, start) ==
    LET hits == {i \in start..(Len(text) - Len(sub)) :
                    SubSeq(text, i + 1, i + Len(sub)) = sub}
    IN  IF hits = {} THEN 0 - 1 ELSE CHOOSE i \in hits : \A j \in hits : i <= j

RECURSIVE str_replace(_, _, _)
str_replace(text, old, new) ==
    IF text = <<>> THEN <<>>
    ELSE IF str_find(text, old, 0) = 0
    THEN new \o str_replace(PySliceFrom(text, Len(old)), old, new)
    ELSE <<Head(text)>> \o str_replace(Tail(text), old, new)

\* the while loop of _replace_all for a search that ignores case
RECURSIVE ReplaceIgnoringCase(_, _, _, _)
ReplaceIgnoringCase(new_text, idx, query, replacement) ==
    IF idx < 0 THEN new_text
    ELSE LET replaced == PySliceTo(new_text, idx) \o replacement
                             \o PySliceFrom(new_text, idx + Len(query))
         IN  ReplaceIgnoringCase(replaced,
                                 str_find(str_lower(replaced), str_lower(query),
                                          idx + Len(replacement)),
                                 query, replacement)

\* whether _replace_all finds the query in a cell's text
QueryIn(text, query, case) ==
    IF case THEN str_find(text, query, 0) >= 0
    ELSE str_find(str_lower(text), str_lower(query), 0) >= 0

\* the text _replace_all gives to a cell the query is found in
ReplacedText(text, query, replacement, case) ==
    IF case THEN str_replace(text, query, replacement)
    ELSE ReplaceIgnoringCase(text, str_find(str_lower(text), str_lower(query), 0),
                             query, replacement)

\* the EditCellCommand objects _replace_all pushes: one per cell holding the
\* query, rows top to bottom, source before target
ReplaceAllCommands(rs, query, replacement, case) ==
    LET cells == [k \in 1..(2 * Len(rs)) |->
                     LET r == (k - 1) \div 2
                         c == (k - 1) % 2
                         text == get_cell(rs, r, c)
                     IN  EditCellCommand(r, c, text,
                                         ReplacedText(text, query, replacement, case))]
    IN  SelectSeq(cells, LAMBDA e : QueryIn(e.old, query, case))

\* the find dialog's query and replacement fields
FindTexts == {<<>>, <<"b">>}
ReplaceTexts == {<<>>}

\* _replace_all: beginMacro drops the undone commands and puts the macro on
\* the stack, each push runs the child's redo(), endMacro closes the macro
ReplaceAll ==
    /\ index < MaxCmds
    /\ \E query \in FindTexts, replacement \in ReplaceTexts, case \in BOOLEAN :
           /\ query # <<>>
           /\ LET r == MacroRedo(rows, MacroCommand(
                            ReplaceAllCommands(rows, query, replacement, case)))
              IN  /\ rows' = r.rows
                  /\ stack' = Append(SubSeq(stack, 1, index), r.cmd)
                  /\ snaps' = Append(SubSeq(snaps, 1, index), rows)
    /\ index' = index + 1
    /\ win' = QPushed(win, index)
    /\ UNCHANGED <<cmdVars, ioVars>>

\* Edit > Undo: QUndoStack.undo()
UndoAction ==
    /\ index > 0
    /\ LET r == Undo(rows, stack[index])
       IN  /\ rows' = r.rows
           /\ stack' = [stack EXCEPT ![index] = r.cmd]
    /\ index' = index - 1
    /\ win' = [QSetIndex(win, index, index - 1, FALSE) EXCEPT !.last = NoOp]
    /\ UNCHANGED <<snaps, cmdVars, ioVars>>

\* Edit > Redo: QUndoStack.redo()
RedoAction ==
    /\ index < Len(stack)
    /\ LET r == Redo(rows, stack[index + 1])
       IN  /\ rows' = r.rows
           /\ stack' = [stack EXCEPT ![index + 1] = r.cmd]
    /\ index' = index + 1
    /\ win' = [QSetIndex(win, index, index + 1, FALSE) EXCEPT !.last = NoOp]
    /\ UNCHANGED <<snaps, cmdVars, ioVars>>

Next ==
    \/ OnInlineSplit
    \/ OpSplitDialog
    \/ OpMerge
    \/ OpMoveUp
    \/ OpMoveDown
    \/ OpEditCell
    \/ OnInlineEdit
    \/ OpDeleteEmptyRow
    \/ ReplaceAll
    \/ UndoAction
    \/ RedoAction

Spec == Init /\ [][Next]_vars

(***************************************************************************)
(* main_window.py: the file operations of the session.  load_file parses   *)
(* the file found at a path; Save and Save As call write_tmx, which        *)
(* returns or raises.  Between them the user edits, undoes and redoes.     *)
(***************************************************************************)
Paths == {Path("a.tmx"), Path("b.tmx")}

\* the files load_file finds: those of the sessions above and files
\* parse_tmx rejects
LoadFiles ==
    SessionFiles \cup
    { [f EXCEPT !.wellformed = FALSE] : f \in SessionFiles } \cup
    { [f EXCEPT !.body = FALSE, !.tus = <<>>] : f \in SessionFiles }

\* what a file operation found: the document, the undo stack and the window
Before ==
    [rows |-> rows, stack |-> stack, index |-> index, dirty |-> win.dirty,
     clean_index |-> win.clean_index, file_path |-> win.file_path]

\* the outcome of a file operation
Outcome(op, ok) == [op |-> op, ok |-> ok, before |-> Before]

FileInit ==
    /\ IoIdle
    /\ \E f \in SessionFiles, path \in Paths :
           /\ rows = parse_tmx(f).rows
           /\ win = Loaded(path)
    /\ stack = <<>>
    /\ index = 0
    /\ snaps = <<>>
    /\ cmd = NoCmd
    /\ phase = "session"
    /\ pre = <<>>
    /\ post = [rows |-> <<>>, cmd |-> NoCmd]

\* QUndoStack.clear(): nothing to do for an empty stack; otherwise the
\* commands are deleted, index and clean index are 0 and cleanChanged(True)
\* is emitted if the stack was not clean
QClear(wn, stk, idx) ==
    IF stk = <<>> THEN wn
    ELSE [wn EXCEPT !.clean_index = 0,
                    !.dirty = IF idx # wn.clean_index THEN FALSE ELSE @]

\* a load_file that leaves the undo stack as it is
LoadFile_KeepsHistory ==
    \E f \in LoadFiles, path \in Paths :
        /\ parse_tmx_raises(f) = "none"
        /\ rows' = parse_tmx(f).rows
        /\ win' = [win EXCEPT !.file_path = path, !.dirty = FALSE,
                              !.last = Outcome("load", TRUE)]
        /\ UNCHANGED <<stack, index, snaps, cmdVars, ioVars>>

\* load_file(path) when parse_tmx returns a document
LoadFile ==
    \E f \in LoadFiles, path \in Paths :
        /\ parse_tmx_raises(f) = "none"
        /\ rows' = parse_tmx(f).rows
        /\ stack' = <<>>
        /\ snaps' = <<>>
        /\ index' = 0
        /\ win' = [QSetIndex(QClear(win, stack, index), 0, 0, TRUE)
                       EXCEPT !.dirty = FALSE, !.file_path = path,
                              !.saved_at = 0, !.last = Outcome("load", TRUE)]
        /\ UNCHANGED <<cmdVars, ioVars>>

\* load_file(path) when parse_tmx raises: the message box, return False
LoadFileFails ==
    \E f \in LoadFiles :
        /\ parse_tmx_raises(f) # "none"
        /\ win' = [win EXCEPT !.last = Outcome("load", FALSE)]
        /\ UNCHANGED <<rows, stack, index, snaps, cmdVars, ioVars>>

\* _do_save(path): write_tmx returns (ok) or raises
DoSave(wn, op, ok) ==
    IF ok
    THEN [QSetIndex(wn, index, index, TRUE)
             EXCEPT !.dirty = FALSE, !.saved_at = index, !.last = Outcome(op, TRUE)]
    ELSE [wn EXCEPT !.last = Outcome(op, FALSE)]

\* _file_save_as: the path the dialog returns becomes the document's
\* file_path, then _do_save(path)
FileSaveAs ==
    /\ \E path \in Paths, ok \in BOOLEAN :
           win' = DoSave([win EXCEPT !.file_path = path], "save_as", ok)
    /\ UNCHANGED <<rows, stack, index, snaps, cmdVars, ioVars>>

\* _file_save: _do_save(self._doc.file_path), Save As for a document
\* without a path
FileSave ==
    IF win.file_path = None THEN FileSaveAs
    ELSE /\ \E ok \in BOOLEAN : win' = DoSave(win, "save", ok)
         /\ UNCHANGED <<rows, stack, index, snaps, cmdVars, ioVars>>

FileNext ==
    \/ LoadFile
    \/ LoadFileFails
    \/ FileSave
    \/ FileSaveAs
    \/ OpEditCell
    \/ OpDeleteEmptyRow
    \/ UndoAction
    \/ RedoAction

SpecFile == FileInit /\ [][FileNext]_vars

(***************************************************************************)
(* models.py: the methods of AlignmentDocument called directly, with any   *)
(* integer arguments, on documents whose rows hold any texts and flags.    *)
(* A call either raises IndexError, leaving the document as it was, or     *)
(* returns; call records the arguments, the document before the call and   *)
(* what came back.                                                         *)
(***************************************************************************)
ApiMaxRows == 2     \* rows of the documents the methods are called on

ApiRowPool ==
    { [AlignmentRow(s, <<"b">>) EXCEPT !.source_modified = sm, !.target_modified = tm] :
        s \in {<<>>, <<"a">>}, sm \in BOOLEAN, tm \in BOOLEAN }

ApiDocs == SeqsUpTo(ApiRowPool, ApiMaxRows)

\* the row and column arguments tried: inside and outside the document
ApiRows == (0 - ApiMaxRows - 1)..(ApiMaxRows + 1)
ApiCols == (0 - 1)..2
ApiTexts == {<<>>, <<"a">>, <<"z">>}

DocInit ==
    /\ rows \in ApiDocs
    /\ cmd = NoCmd
    /\ phase = "doc"
    /\ pre = <<>>
    /\ post = [rows |-> <<>>, cmd |-> NoCmd]
    /\ stack = <<>>
    /\ index = 0
    /\ snaps = <<>>
    /\ WinIdle
    /\ WriteIdle
    /\ CodecIdle
    /\ ApiIdle

\* one call on the document as it is
Call(op, row, col, text, raised, result) ==
    /\ phase = "doc"
    /\ call = NoCall
    /\ call' = [op |-> op, row |-> row, col |-> col, text |-> text,
                before |-> rows, raised |-> raised, result |-> result]
    /\ UNCHANGED <<cmdVars, sessVars, writeVars, codecVars>>

RowCount ==
    /\ Call("row_count", 0, 0, <<>>, FALSE, row_count(rows))
    /\ UNCHANGED rows

GetCell ==
    \E row \in ApiRows, col \in ApiCols :
        /\ IF InRange(rows, row)
           THEN Call("get_cell", row, col, <<>>, FALSE, get_cell(rows, row, col))
           ELSE Call("get_cell", row, col, <<>>, TRUE, None)
        /\ UNCHANGED rows

SetCell ==
    \E row \in ApiRows, col \in ApiCols, text \in ApiTexts :
        IF InRange(rows, row)
        THEN /\ Call("set_cell", row, col, text, FALSE, None)
             /\ rows' = set_cell(rows, row, col, text)
        ELSE /\ Call("set_cell", row, col, text, TRUE, None)
             /\ UNCHANGED rows

InsertRow ==
    \E at \in ApiRows :
        /\ Call("insert_row", at, 0, <<>>, FALSE, None)
        /\ rows' = insert_row(rows, at, AlignmentRow(<<"z">>, <<>>))

RemoveRow ==
    \E at \in ApiRows :
        IF InRange(rows, at)
        THEN /\ Call("remove_row", at, 0, <<>>, FALSE, rows[PyIndex(Len(rows), at)])
             /\ rows' = remove_row(rows, at)
        ELSE /\ Call("remove_row", at, 0, <<>>, TRUE, None)
             /\ UNCHANGED rows

DocNext ==
    \/ RowCount
    \/ GetCell
    \/ SetCell
    \/ InsertRow
    \/ RemoveRow

SpecDoc == DocInit /\ [][DocNext]_vars

(***************************************************************************)
(* tmx_io.py, write_tmx: the atomic write.  The serialised document        *)
(* xml_bytes goes to a temporary file in the destination's directory, the  *)
(* existing destination is copied to the backup path, and os.replace moves *)
(* the temporary file over the destination.  Every system call either      *)
(* succeeds or raises; os.write also may write fewer bytes than it was     *)
(* given and return their count, which write_tmx does not look at.  A      *)
(* file's content is a sequence of chunks of bytes.                        *)
(***************************************************************************)
XmlBytes ==
    { <<"<tmx>", "<body/>", "</tmx>">>,
      <<"<tmx>", "<body>", "<tu/>", "</body>", "</tmx>">> }

\* what the destination path may hold when write_tmx is called
DestContents ==
    {Absent, File(<<"<tmx>", "</tmx>">>)} \cup {File(b) : b \in XmlBytes}

\* what the backup path may hold when write_tmx is called
BakContents == {Absent, File(<<"<bak/>">>)}

\* the content of a file after only its first n chunks were written
Prefix(b, n) == SubSeq(b, 1, n)

WriteInit ==
    /\ rows = <<>>
    /\ cmd = NoCmd
    /\ phase = "write"
    /\ pre = <<>>
    /\ post = [rows |-> <<>>, cmd |-> NoCmd]
    /\ stack = <<>>
    /\ index = 0
    /\ snaps = <<>>
    /\ WinIdle
    /\ CodecIdle
    /\ ApiIdle
    /\ \E before \in DestContents, bak0 \in BakContents,
          backup \in BOOLEAN, xml_bytes \in XmlBytes :
           /\ fs = [dest |-> before, tmp |-> Absent, bak |-> bak0]
           /\ w = [pc |-> "mkstemp", fd |-> 0 - 1, fd_open |-> FALSE,
                   backup |-> backup, xml_bytes |-> xml_bytes,
                   before |-> before, bak_before |-> bak0,
                   step_failed |-> FALSE]
           /\ seen = before

WriteStep(pc) ==
    /\ phase = "write"
    /\ w.pc = pc
    /\ UNCHANGED <<rows, cmdVars, sessVars, seen, codecVars, apiVars>>

\* a step raised inside the try block: control goes to the except clause
Raise == [w EXCEPT !.pc = "except", !.step_failed = TRUE]

\* tempfile.mkstemp creates an empty file and returns its open descriptor
Mkstemp ==
    /\ WriteStep("mkstemp")
    /\ fs' = [fs EXCEPT !.tmp = File(<<>>)]
    /\ w' = [w EXCEPT !.pc = "write", !.fd = 3, !.fd_open = TRUE]

\* mkstemp raises before the try block is entered
MkstempFails ==
    /\ WriteStep("mkstemp")
    /\ w' = [w EXCEPT !.pc = "raised", !.step_failed = TRUE]
    /\ UNCHANGED fs

\* os.write(fd, xml_bytes) writes n chunks and returns n; the result is dropped
OsWrite ==
    /\ WriteStep("write")
    /\ \E n \in 1..Len(w.xml_bytes) :
           /\ fs' = [fs EXCEPT !.tmp = File(Prefix(w.xml_bytes, n))]
           /\ w' = [w EXCEPT !.pc = "close",
                             !.step_failed = (n < Len(w.xml_bytes))]

OsWriteFails ==
    /\ WriteStep("write")
    /\ w' = Raise
    /\ UNCHANGED fs

\* os.close(fd); fd = -1
OsClose ==
    /\ WriteStep("close")
    /\ w' = [w EXCEPT !.pc = "backup", !.fd = 0 - 1, !.fd_open = FALSE]
    /\ UNCHANGED fs

\* os.close(fd) raises (an I/O error reported at close): fd = -1 is not
\* reached; the descriptor itself is released by the failed close on Linux
\* and left in an unspecified state by POSIX
OsCloseFails ==
    /\ WriteStep("close")
    /\ \E open \in BOOLEAN : w' = [Raise EXCEPT !.fd_open = open]
    /\ UNCHANGED fs

\* a backup taken of the path after the rename: it holds the new content
BackupCopy_AfterReplace ==
    /\ WriteStep("backup")
    /\ w.backup /\ fs.dest.exists
    /\ fs' = [fs EXCEPT !.bak = fs.tmp]
    /\ w' = [w EXCEPT !.pc = "replace"]

\* if backup and path.exists(): shutil.copy2(path, bak_path)
BackupCopy ==
    /\ WriteStep("backup")
    /\ w.backup /\ fs.dest.exists
    /\ fs' = [fs EXCEPT !.bak = fs.dest]
    /\ w' = [w EXCEPT !.pc = "replace"]

\* the copy raises, having written none, some or all of the backup file
BackupCopyFails ==
    /\ WriteStep("backup")
    /\ w.backup /\ fs.dest.exists
    /\ \E b \in {fs.bak} \cup {File(Prefix(fs.dest.data, n)) : n \in 0..Len(fs.dest.data)} :
           fs' = [fs EXCEPT !.bak = b]
    /\ w' = Raise

BackupSkipped ==
    /\ WriteStep("backup")
    /\ ~(w.backup /\ fs.dest.exists)
    /\ w' = [w EXCEPT !.pc = "replace"]
    /\ UNCHANGED fs

\* os.replace(tmp_path, path): the rename is atomic
OsReplace ==
    /\ WriteStep("replace")
    /\ fs' = [fs EXCEPT !.dest = fs.tmp, !.tmp = Absent]
    /\ w' = [w EXCEPT !.pc = "returned"]

OsReplaceFails ==
    /\ WriteStep("replace")
    /\ w' = Raise
    /\ UNCHANGED fs

\* except BaseException: if fd >= 0: os.close(fd); unlink the temporary
\* file if it exists; re-raise
ExceptCleanup ==
    /\ WriteStep("except")
    /\ w.fd >= 0 => w.fd_open
    /\ fs' = [fs EXCEPT !.tmp = Absent]
    /\ w' = [w EXCEPT !.pc = "raised", !.fd_open = FALSE]

\* the os.close(fd) of the except clause raises on a descriptor that is no
\* longer open: the handler is left before the unlink
ExceptCloseRaises ==
    /\ WriteStep("except")
    /\ w.fd >= 0 /\ ~w.fd_open
    /\ w' = [w EXCEPT !.pc = "raised"]
    /\ UNCHANGED fs

\* another process reads the destination path
ReaderReads ==
    /\ phase = "write"
    /\ seen' = fs.dest
    /\ UNCHANGED <<rows, cmdVars, sessVars, fs, w, codecVars, apiVars>>

WriteNext ==
    \/ Mkstemp
    \/ MkstempFails
    \/ OsWrite
    \/ OsWriteFails
    \/ OsClose
    \/ OsCloseFails
    \/ BackupCopy
    \/ BackupCopyFails
    \/ BackupSkipped
    \/ OsReplace
    \/ OsReplaceFails
    \/ ExceptCleanup
    \/ ExceptCloseRaises
    \/ ReaderReads

SpecWrite == WriteInit /\ [][WriteNext]_vars

(***************************************************************************)
(* tmx_io.py: the round trip parse, edit, write, parse of a TMX file.      *)
(***************************************************************************)
\* the files parsed: the header's srclang, up to MaxTus <tu> of these
\* shapes, and the layout of the file
Headers ==
    { NoHeader, Header(<<>>), Header(<<" ">>), Header(<<"T", "H", " ">>),
      Header(LangAll), Header(LangFr) }

TuvLists ==
    { <<Tuv(LangEn, Seg(<<TextNode(<<"a">>)>>)),
        Tuv(LangTh, Seg(<<TextNode(<<"b">>)>>))>>,
      <<Tuv(<<"E", "N">>, Seg(<<Elem("hi", <<"a">>)>>)),
        Tuv(LangTh, Seg(<<TextNode(<<"b">>), Elem("ph", <<>>)>>)),
        Tuv(LangFr, Seg(<<TextNode(<<"c">>)>>))>>,
      <<Tuv(LangTh, Seg(<<Elem("ph", <<>>)>>)),
        Tuv(LangEn, NoSeg)>>,
      <<Tuv(LangFr, Seg(<<TextNode(<<"c">>)>>)),
        Tuv(<<>>, Seg(<<>>))>> }

TmxFiles ==
    { TmxFile(h, [i \in 1..Len(ts) |-> Tu(ts[i], indented)]) :
        h \in Headers, ts \in SeqsUpTo(TuvLists, MaxTus), indented \in BOOLEAN }

\* other inputs: one of the files above cut short so that it is no longer
\* well-formed, with another root element, with the root in a namespace, a
\* file without <body>, a <tu> with two <tuv> of one language, and a file
\* whose only language code is the word unknown
OneTu ==
    TmxFile(Header(LangEn),
            <<Tu(<<Tuv(LangEn, Seg(<<TextNode(<<"a">>)>>)),
                   Tuv(LangTh, Seg(<<TextNode(<<"b">>)>>))>>, TRUE)>>)

OtherFiles ==
    { [OneTu EXCEPT !.wellformed = FALSE],
      [OneTu EXCEPT !.wellformed = FALSE, !.root = Root("none", <<"t", "m">>)],
      [OneTu EXCEPT !.root = Root("none", <<"T", "M", "X">>)],
      [OneTu EXCEPT !.root = Root("none", <<"t", "m">>)],
      [OneTu EXCEPT !.root = Root("prefix", TagTmx)],
      [OneTu EXCEPT !.root = Root("prefix", <<"t", "m">>)],
      [OneTu EXCEPT !.root = Root("default", TagTmx)],
      [OneTu EXCEPT !.body = FALSE, !.tus = <<>>],
      TmxFile(Header(LangEn),
              <<Tu(<<Tuv(LangEn, Seg(<<TextNode(<<"a">>)>>)),
                     Tuv(LangEn, Seg(<<TextNode(<<"c">>)>>)),
                     Tuv(LangTh, Seg(<<TextNode(<<"b">>)>>))>>, TRUE)>>),
      TmxFile(NoHeader,
              <<Tu(<<Tuv(LangUnknown, Seg(<<TextNode(<<"a">>)>>))>>, TRUE)>>) }

Files == TmxFiles \cup OtherFiles

\* the texts an editor gives to a cell between parse and write
CodecTexts == {<<>>, <<"z">>}

CodecInit ==
    /\ rows = <<>>
    /\ cmd = NoCmd
    /\ phase = "codec"
    /\ pre = <<>>
    /\ post = [rows |-> <<>>, cmd |-> NoCmd]
    /\ stack = <<>>
    /\ index = 0
    /\ snaps = <<>>
    /\ WinIdle
    /\ WriteIdle
    /\ ApiIdle
    /\ tree \in Files
    /\ doc = None
    /\ codec = [pc |-> "file", edited |-> FALSE, error |-> "none", saved |-> <<>>]
    /\ parsed0 = None

\* parse_tmx(path): of the file as found, and of the file as written
ParseTmx ==
    /\ phase = "codec"
    /\ codec.pc \in {"file", "written"}
    /\ parse_tmx_raises(tree) = "none"
    /\ LET d == parse_tmx(tree)
           fields == [source_lang |-> d.source_lang, target_lang |-> d.target_lang,
                      header_attribs |-> d.header_attribs,
                      header_element |-> d.header_element]
       IN  /\ rows' = d.rows
           /\ doc' = fields
           /\ parsed0' = IF codec.pc = "file"
                         THEN [rows |-> d.rows, doc |-> fields] ELSE parsed0
    /\ codec' = [codec EXCEPT !.pc = IF @ = "file" THEN "parsed" ELSE "reparsed"]
    /\ UNCHANGED <<tree, cmdVars, sessVars, writeVars, apiVars>>

\* parse_tmx(path) raising: no document is returned
ParseTmxRaises ==
    /\ phase = "codec"
    /\ codec.pc \in {"file", "written"}
    /\ parse_tmx_raises(tree) # "none"
    /\ codec' = [codec EXCEPT !.pc = "failed", !.error = parse_tmx_raises(tree)]
    /\ UNCHANGED <<rows, tree, doc, parsed0, cmdVars, sessVars, writeVars, apiVars>>

\* doc.set_cell on the parsed document
CodecSetCell ==
    /\ phase = "codec"
    /\ codec.pc = "parsed"
    /\ ~codec.edited
    /\ \E row \in 0..(Len(rows) - 1), col \in {0, 1}, text \in CodecTexts :
           rows' = set_cell(rows, row, col, text)
    /\ codec' = [codec EXCEPT !.edited = TRUE]
    /\ UNCHANGED <<tree, doc, parsed0, cmdVars, sessVars, writeVars, apiVars>>

\* a SplitCommand pushed on the parsed document: its redo()
CodecSplit ==
    /\ phase = "codec"
    /\ codec.pc = "parsed"
    /\ ~codec.edited
    /\ \E row \in 0..(Len(rows) - 1), col \in {0, 1} :
           \E pos \in 0..Len(get_cell(rows, row, col)) :
               rows' = SplitRedo(rows, SplitCommand(rows, row, col, pos)).rows
    /\ codec' = [codec EXCEPT !.edited = TRUE]
    /\ UNCHANGED <<tree, doc, parsed0, cmdVars, sessVars, writeVars, apiVars>>

\* write_tmx(doc, path), every step of the atomic write succeeding
WriteTmx ==
    /\ phase = "codec"
    /\ codec.pc = "parsed"
    /\ tree' = Serialized(BuiltTree(rows, doc))
    /\ codec' = [codec EXCEPT !.pc = "written", !.saved = rows]
    /\ UNCHANGED <<rows, doc, parsed0, cmdVars, sessVars, writeVars, apiVars>>

CodecNext ==
    \/ ParseTmx
    \/ ParseTmxRaises
    \/ CodecSetCell
    \/ CodecSplit
    \/ WriteTmx

SpecCodec == CodecInit /\ [][CodecNext]_vars

(***************************************************************************)
(* Properties of the command algebra (SpecCmd).                            *)
(***************************************************************************)
Applied == phase \in {"applied", "reapplied"}

\* the 0-based row below the command's row
NextRow == cmd.row + 1

\* the split took its "inserted-row" case on the document it was built on
SplitInsertCase ==
    \/ cmd.row + 1 >= Len(pre)
    \/ get_cell(pre, cmd.row + 1, cmd.col) # <<>>

\* C1 as stated: after do(); undo() of any command the row count and every
\* cell text are those before do().
C1_UndoRestoresAnyCommand ==
    phase = "undone" => Texts(rows) = Texts(pre)

\* the old_text handed to EditCellCommand is the text its cell holds
EditOldIsCurrent ==
    cmd.type = "Edit" => cmd.old = get_cell(pre, cmd.row, cmd.col)

\* C1 amended: after do(); undo() the row count and every cell text are those
\* before do(), for split (both branches), merge (both branches), move and
\* delete, and for an edit whose old_text is the text the cell held.
C1_UndoRestores ==
    (phase = "undone" /\ EditOldIsCurrent) => Texts(rows) = Texts(pre)

\* C1 witness: a merge that removed its next row has been undone (and so
\* has a split that filled a blank, checked by C1_UndoRestores as well).
C1_Witness ==
    /\ phase = "undone"
    /\ cmd.type = "Merge"
    /\ cmd.row_removed
    /\ cmd.orig_active # <<>>
    /\ cmd.orig_next_active # <<>>

\* C3: do(); undo(); do() leaves the row count, every cell text and the
\* branch taken as the first do() left them.
C3_RedoIdempotent ==
    phase = "reapplied" =>
        /\ Texts(rows) = Texts(post.rows)
        /\ cmd.type = "Split" => cmd.filled_existing = post.cmd.filled_existing
        /\ cmd.type = "Merge" => cmd.row_removed = post.cmd.row_removed

\* C3 witness: a split that filled the blank below was redone after undo.
C3_Witness ==
    /\ phase = "reapplied"
    /\ cmd.type = "Split"
    /\ cmd.filled_existing
    /\ Texts(rows) # Texts(pre)

\* C7: a split or merge of column col leaves the other column's cell of
\* every row it found untouched: the other column afterwards is the one
\* before, with one blank cell more at row+1 when the split inserted its
\* row and one blank cell less at row+1 when the merge removed its row.
C7_OtherColumnUntouched ==
    (Applied /\ cmd.type \in {"Split", "Merge"}) =>
        LET oc == 1 - cmd.col
            before == Column(pre, oc)
            after == Column(rows, oc)
        IN  CASE cmd.type = "Split" /\ ~cmd.filled_existing ->
                    after = PyInsert(before, NextRow, <<>>)
              [] cmd.type = "Merge" /\ cmd.row_removed ->
                    before = PyInsert(after, NextRow, <<>>)
              [] OTHER -> after = before

\* C7 witness: a merge kept the next row because its other column has text.
C7_Witness ==
    /\ phase = "applied"
    /\ cmd.type = "Merge"
    /\ ~cmd.row_removed
    /\ Len(rows) = 2
    /\ get_cell(rows, 1, 1 - cmd.col) # <<>>
    /\ get_cell(rows, 0, 1 - cmd.col) # <<>>

\* C9: when row is the last row or the cell below in column col holds text,
\* the split inserts one row at row+1 with the right fragment in col and the
\* empty text in the other column, and every row that was below row moves
\* down by one unchanged.
C9_SplitInsertsRow ==
    (Applied /\ cmd.type = "Split" /\ SplitInsertCase) =>
        /\ Len(rows) = Len(pre) + 1
        /\ get_cell(rows, NextRow, cmd.col) = SplitRight(cmd)
        /\ get_cell(rows, NextRow, 1 - cmd.col) = <<>>
        /\ \A i \in 1..Len(pre) : i > cmd.row + 1 => rows[i + 1] = pre[i]
        /\ \A i \in 1..Len(pre) : i < cmd.row + 1 => rows[i] = pre[i]

\* C9 witness: a split of row 0 pushed a row holding text down to row 2.
C9_Witness ==
    /\ phase = "applied"
    /\ cmd.type = "Split"
    /\ cmd.row = 0
    /\ Len(pre) = 2
    /\ Len(rows) = 3
    /\ rows[3].source # <<>>
    /\ rows[2].source # <<>>

\* text[pos:] without its first character when that is a space
FragmentOf(text, pos) ==
    LET tail == PySliceFrom(text, pos)
    IN  IF tail # <<>> /\ Head(tail) = " "
        THEN SubSeq(tail, 2, Len(tail))
        ELSE tail

C2_LifoUndoRestores ==
    index < Len(stack) => Texts(rows) = Texts(snaps[index + 1])

\* C2 witness: two commands of different types were pushed and both undone,
\* and the second had changed the document the first left.
C2_Witness ==
    /\ Len(stack) = 2
    /\ index = 0
    /\ stack[1].type = "Split"
    /\ stack[2].type = "Merge"
    /\ Texts(snaps[2]) # Texts(snaps[1])

\* the command applied last, and the document it was pushed on
TopCmd == stack[index]
TopPre == snaps[index]

\* C8: a split whose row+1 exists with an empty cell in column col writes
\* the right fragment there, inserts no row and leaves (row+1, 1-col) as it
\* was; so a split of column 0 then of column 1 of a single row leaves two
\* rows.
C8_SmartFill ==
    /\ (/\ index > 0
        /\ TopCmd.type = "Split"
        /\ TopCmd.row + 1 < Len(TopPre)
        /\ get_cell(TopPre, TopCmd.row + 1, TopCmd.col) = <<>>)
       => /\ get_cell(rows, TopCmd.row + 1, TopCmd.col)
                = FragmentOf(get_cell(TopPre, TopCmd.row, TopCmd.col), TopCmd.pos)
          /\ Len(rows) = Len(TopPre)
          /\ get_cell(rows, TopCmd.row + 1, 1 - TopCmd.col)
                = get_cell(TopPre, TopCmd.row + 1, 1 - TopCmd.col)
    /\ (/\ index = 2
        /\ Len(snaps[1]) = 1
        /\ stack[1].type = "Split" /\ stack[1].col = 0
        /\ stack[2].type = "Split" /\ stack[2].col = 1 /\ stack[2].row = 0)
       => Len(rows) = 2

\* C8 witness: column 0 then column 1 of a single row were split, and the
\* second split filled the blank the first one made.
C8_Witness ==
    /\ index = 2
    /\ Len(snaps[1]) = 1
    /\ stack[1].type = "Split" /\ stack[1].col = 0
    /\ stack[2].type = "Split" /\ stack[2].col = 1 /\ stack[2].row = 0
    /\ stack[2].filled_existing
    /\ get_cell(rows, 1, 0) # <<>>
    /\ get_cell(rows, 1, 1) # <<>>

(***************************************************************************)
(* Properties of the atomic write (SpecWrite).                             *)
(***************************************************************************)
\* C5: if the write fails at any step (temporary-file write, backup copy or
\* rename) the error is propagated to the caller, so write_tmx does not
\* return normally, and the destination path holds what it held before the
\* call (or is still absent).
C5_FailedWriteLeavesDestination ==
    w.step_failed => /\ w.pc # "returned"
                     /\ fs.dest = w.before

\* C6: at every step of a write the destination path holds, and a reader of
\* it reads, either the complete previous content (or nothing, when it was
\* absent) or the complete new serialisation.
C6_DestinationNeverPartial ==
    /\ fs.dest \in {w.before, File(w.xml_bytes)}
    /\ seen \in {w.before, File(w.xml_bytes)}

(***************************************************************************)
(* Properties of the parser and the writer (SpecCodec).                    *)
(***************************************************************************)
\* C4: for a parsed document D, parsing the file written from D gives the
\* same number of rows, the same source and target language and, row by
\* row, the same source and target text as D.
C4_RoundTrip ==
    (codec.pc = "reparsed" /\ ~codec.edited)
        => /\ Len(rows) = Len(parsed0.rows)
           /\ doc.source_lang = parsed0.doc.source_lang
           /\ doc.target_lang = parsed0.doc.target_lang
           /\ Texts(rows) = Texts(parsed0.rows)

(***************************************************************************)
(* Properties of merge, move, edit and delete (SpecCmd).                   *)
(***************************************************************************)
\* C11: a merge removes row row+1 (one row less) exactly when cell
\* (row+1, 1-col) is empty; otherwise the row count stays, (row+1, col)
\* becomes empty and (row+1, 1-col) keeps its text.
C11_MergeRemovesOrKeeps ==
    (Applied /\ cmd.type = "Merge") =>
        LET other == get_cell(pre, NextRow, 1 - cmd.col)
        IN  IF other = <<>>
            THEN /\ cmd.row_removed
                 /\ Len(rows) = Len(pre) - 1
                 /\ \A i \in 1..Len(rows) :
                        i # cmd.row + 1 => rows[i] = pre[IF i <= cmd.row THEN i ELSE i + 1]
            ELSE /\ ~cmd.row_removed
                 /\ Len(rows) = Len(pre)
                 /\ get_cell(rows, NextRow, cmd.col) = <<>>
                 /\ get_cell(rows, NextRow, 1 - cmd.col) = other

\* C11 witness: a merge removed a next row whose active cell held text.
C11_Witness ==
    /\ phase = "applied"
    /\ cmd.type = "Merge"
    /\ cmd.row_removed
    /\ Len(pre) = 2
    /\ Len(rows) = 1
    /\ get_cell(pre, 1, cmd.col) # <<>>

\* C12: after a merge, cell (row, col) is activeA, one space, activeB when
\* both were non-empty, and activeA followed by activeB with nothing between
\* when one of them was empty.
C12_MergedText ==
    (Applied /\ cmd.type = "Merge") =>
        LET activeA == get_cell(pre, cmd.row, cmd.col)
            activeB == get_cell(pre, NextRow, cmd.col)
        IN  get_cell(rows, cmd.row, cmd.col) =
                IF activeA # <<>> /\ activeB # <<>>
                THEN activeA \o <<" ">> \o activeB
                ELSE activeA \o activeB

\* C12 witness: a merge of a cell holding text with an empty cell below it.
C12_Witness ==
    /\ phase = "applied"
    /\ cmd.type = "Merge"
    /\ get_cell(pre, cmd.row, cmd.col) = <<"b">>
    /\ get_cell(pre, NextRow, cmd.col) = <<>>
    /\ get_cell(rows, cmd.row, cmd.col) = <<"b">>

\* the row a move exchanges with, and whether the document has it
MoveTarget == cmd.row + cmd.direction
MoveTargetInDoc == 0 <= MoveTarget /\ MoveTarget < Len(pre)

\* C13: a move up or down between two rows of the document exchanges the
\* texts of (row, col) and (row+direction, col); the row count, column
\* 1-col and every other row are as before.
C13_MoveExchanges ==
    (Applied /\ cmd.type = "Move" /\ MoveTargetInDoc) =>
        /\ Len(rows) = Len(pre)
        /\ Column(rows, 1 - cmd.col) = Column(pre, 1 - cmd.col)
        /\ get_cell(rows, cmd.row, cmd.col) = get_cell(pre, MoveTarget, cmd.col)
        /\ get_cell(rows, MoveTarget, cmd.col) = get_cell(pre, cmd.row, cmd.col)
        /\ \A i \in 0..(Len(pre) - 1) :
               i \notin {cmd.row, MoveTarget} =>
                   get_cell(rows, i, cmd.col) = get_cell(pre, i, cmd.col)

\* C13 witness: a move down exchanged two different texts, the other column
\* of the two rows holding different texts as well.
C13_Witness ==
    /\ phase = "applied"
    /\ cmd.type = "Move"
    /\ cmd.direction = 1
    /\ MoveTargetInDoc
    /\ get_cell(pre, cmd.row, cmd.col) # get_cell(pre, MoveTarget, cmd.col)
    /\ get_cell(pre, cmd.row, 1 - cmd.col) # get_cell(pre, MoveTarget, 1 - cmd.col)

\* the texts of a document with cell (row, col) replaced by text
TextsWith(rs, row, col, text) ==
    [Texts(rs) EXCEPT ![row + 1][col + 1] = text]

\* C14: after do() of an edit the cell holds newText, after undo() the
\* oldText given at construction; no other cell and no row count changes.
C14_EditSetsNewThenOld ==
    cmd.type = "Edit" =>
        /\ Applied => Texts(rows) = TextsWith(pre, cmd.row, cmd.col, cmd.new)
        /\ phase = "undone" => Texts(rows) = TextsWith(pre, cmd.row, cmd.col, cmd.old)

\* C14 witness: an edit given an oldText that is neither the cell's text nor
\* the new text was undone, in a document of two rows.
C14_Witness ==
    /\ phase = "undone"
    /\ cmd.type = "Edit"
    /\ Len(rows) = 2
    /\ cmd.old # cmd.new
    /\ cmd.old # <<>>
    /\ cmd.old # get_cell(pre, cmd.row, cmd.col)

\* C15: do() of a delete removes the row at index row whatever it holds,
\* the later rows moving up by one; undo() puts that row back at the same
\* index, so that the rows are those before do().
C15_DeleteRemovesAndRestores ==
    cmd.type = "Delete" =>
        /\ Applied => /\ Len(rows) = Len(pre) - 1
                      /\ \A i \in 1..Len(rows) :
                             rows[i] = pre[IF i <= cmd.row THEN i ELSE i + 1]
                      /\ cmd.removed_row = pre[cmd.row + 1]
        /\ phase = "undone" => rows = pre

\* C15 witness: the first of two rows, holding text, was deleted and put
\* back.
C15_Witness ==
    /\ phase = "undone"
    /\ cmd.type = "Delete"
    /\ cmd.row = 0
    /\ Len(pre) = 2
    /\ pre[1].source # <<>>
    /\ pre[1] # pre[2]

(***************************************************************************)
(* Properties of the document's methods (SpecDoc).                         *)
(***************************************************************************)
\* the call's row and column address a cell of the document it was made on
CallInDoc == 0 <= call.row /\ call.row < Len(call.before)
CallColValid == call.col \in {0, 1}

\* C16: setCell(row, col, text) leaves text in (row, col) and that column's
\* modified flag of the row true, also when text is what the cell held; the
\* row's other text and flag, every other row and the row count are as
\* before.
C16_SetCellFrame ==
    (call.op = "set_cell" /\ CallInDoc /\ CallColValid) =>
        /\ ~call.raised
        /\ rows = [call.before EXCEPT ![call.row + 1] =
                      IF call.col = 0
                      THEN [@ EXCEPT !.source = call.text, !.source_modified = TRUE]
                      ELSE [@ EXCEPT !.target = call.text, !.target_modified = TRUE]]

\* C16 witness: setCell wrote the text the source cell already held, in the
\* second of two rows, the flag of that cell being false and the flag of
\* the row's other cell true before the call.
C16_Witness ==
    /\ call.op = "set_cell"
    /\ call.row = 1
    /\ call.col = 0
    /\ Len(call.before) = 2
    /\ call.before[2].source = call.text
    /\ ~call.before[2].source_modified
    /\ call.before[2].target_modified
    /\ rows[2].source_modified

\* C18: getCell(row, col) fails with an index error whenever row is outside
\* [0, rowCount), negative rows included, or col is not 0 or 1, and returns
\* the cell's text otherwise.
C18_GetCellIndexError ==
    call.op = "get_cell" =>
        IF CallInDoc /\ CallColValid
        THEN /\ ~call.raised
             /\ call.result = Texts(call.before)[call.row + 1][call.col + 1]
        ELSE call.raised

\* C19: removeRow(index) removes and returns the row at index when
\* 0 <= index < rowCount, and fails, the document unchanged, for every other
\* index, negative indices included.
C19_RemoveRowIndexError ==
    call.op = "remove_row" =>
        IF CallInDoc
        THEN /\ ~call.raised
             /\ call.result = call.before[call.row + 1]
             /\ Len(rows) = Len(call.before) - 1
             /\ \A i \in 1..Len(rows) :
                    rows[i] = call.before[IF i <= call.row THEN i ELSE i + 1]
        ELSE /\ call.raised
             /\ rows = call.before

(***************************************************************************)
(* Properties of the rows' flags and origin in a session (Spec).           *)
(***************************************************************************)
\* a flag that is true in row r is true in row q
FlagsKept(r, q) ==
    /\ r.source_modified => q.source_modified
    /\ r.target_modified => q.target_modified

\* new is old with one row more at place k (1-based): every row of old
\* keeps its flags, and the row at k keeps those of was
GrownAt(old, new, k, was) ==
    /\ Len(new) = Len(old) + 1
    /\ \A j \in 1..Len(new) :
           FlagsKept(IF j < k THEN old[j] ELSE IF j = k THEN was ELSE old[j - 1],
                     new[j])

\* new is old without its row at place k: the rows left keep their flags
ShrunkAt(old, new, k) ==
    /\ Len(new) = Len(old) - 1
    /\ \A j \in 1..Len(new) : FlagsKept(IF j < k THEN old[j] ELSE old[j + 1], new[j])

SameRows(old, new) ==
    /\ Len(new) = Len(old)
    /\ \A j \in 1..Len(new) : FlagsKept(old[j], new[j])

\* the rows after redo() (doing) or undo() of command c keep the flags that
\* were true before it; a row that redo() creates has both flags false, a
\* row that undo() puts back has the flags it was removed with
FlagsKeptBy(old, new, c, doing) ==
    CASE doing /\ c.type = "Split" /\ ~c.filled_existing ->
             /\ GrownAt(old, new, c.row + 2, AlignmentRow(<<>>, <<>>))
             /\ ~new[c.row + 2].source_modified
             /\ ~new[c.row + 2].target_modified
      [] ~doing /\ c.type = "Split" /\ ~c.filled_existing ->
             ShrunkAt(old, new, c.row + 2)
      [] doing /\ c.type = "Merge" /\ c.row_removed ->
             ShrunkAt(old, new, c.row + 2)
      [] ~doing /\ c.type = "Merge" /\ c.row_removed ->
             GrownAt(old, new, c.row + 2, c.removed_row)
      [] doing /\ c.type = "Delete" ->
             ShrunkAt(old, new, c.row + 1)
      [] ~doing /\ c.type = "Delete" ->
             GrownAt(old, new, c.row + 1, c.removed_row)
      [] OTHER -> SameRows(old, new)

\* C17: the rows of a parsed document have both flags false, a row a
\* command creates has both flags false, and a flag that is true stays true
\* through every do, undo and redo of the session's commands.
C17_FlagsMonotone ==
    /\ \A i \in 1..Len(rows) : ~rows[i].source_modified /\ ~rows[i].target_modified
    /\ [][index' # index =>
             FlagsKeptBy(rows, rows',
                         IF index' > index THEN stack'[index'] ELSE stack[index],
                         index' > index)]_vars

\* C17 witness: an edit was undone, the texts are those of the parsed file
\* again and the flag of the edited cell is still true.
C17_Witness ==
    /\ index = 0
    /\ Len(stack) = 1
    /\ stack[1].type = "Edit"
    /\ Texts(rows) = Texts(snaps[1])
    /\ \E i \in 1..Len(rows) : rows[i].source_modified \/ rows[i].target_modified

\* C20: in every state of a session every row without an origin <tu> has
\* no extra <tuv>.
C20_NoOriginNoExtras ==
    \A i \in 1..Len(rows) : rows[i].tu_element = None => rows[i].extra_tuvs = <<>>

\* C20 witness: a split inserted a row without origin below a parsed row
\* that has an extra <tuv>.
C20_Witness ==
    /\ index = 1
    /\ stack[1].type = "Split"
    /\ ~stack[1].filled_existing
    /\ Len(rows) = 2
    /\ rows[1].tu_element # None
    /\ rows[1].extra_tuvs # <<>>
    /\ rows[2].tu_element = None

(***************************************************************************)
(* Properties of the writer (SpecCodec): what write_tmx puts in the file   *)
(* for the rows of the document it is given.                               *)
(***************************************************************************)
\* the language, the flag and the text of a column of a row
ColumnLang(col) == IF col = 0 THEN doc.source_lang ELSE doc.target_lang
Modified(r, col) == IF col = 0 THEN r.source_modified ELSE r.target_modified
CellText(r, col) == IF col = 0 THEN r.source ELSE r.target

\* the <seg> of a column in the <tu> found in the written file
WrittenSeg(i, col) ==
    LET k == find_tuv(tree.tus[i], ColumnLang(col))
    IN  IF k = 0 THEN NoSeg ELSE tree.tus[i].tuvs[k].seg

\* the <seg> of a column in the <tu> the row was parsed from
OriginSeg(r, col) ==
    LET k == find_tuv(r.tu_element, ColumnLang(col))
    IN  IF k = 0 THEN NoSeg ELSE r.tu_element.tuvs[k].seg

\* C21: in the file written, a row that has its origin <tu> has, for each
\* column whose modified flag is false, the <seg> of the origin <tu>
\* unchanged, inline elements included, and for each column whose flag is
\* true a <seg> holding the cell's text as plain text; so an edit of one
\* column leaves the other column's <seg> as it was.
C21_UnmodifiedSegmentKept ==
    codec.pc = "written"
        => \A i \in 1..Len(codec.saved) : \A col \in {0, 1} :
               LET r == codec.saved[i]
               IN  r.tu_element # None
                       => IF Modified(r, col)
                          THEN WrittenSeg(i, col) = PlainSeg(CellText(r, col))
                          ELSE WrittenSeg(i, col) = OriginSeg(r, col)

\* C22: for a document D made from a parsed document by edits (set_cell or
\* a split, whose new row has no origin <tu>), parsing the file written
\* from D gives as many rows as D has and, row by row, the source and
\* target text D holds; an edited cell reads back as its new text.
C22_WriteThenParseGivesCurrentTexts ==
    codec.pc = "reparsed"
        => /\ Len(rows) = Len(codec.saved)
           /\ Texts(rows) = Texts(codec.saved)

\* the <tuv> of a <tu> that are of neither the source nor the target language
ExtraTuvsOf(tu) ==
    SelectSeq(tu.tuvs, LAMBDA tuv :
        normalize_lang(tuv.lang) \notin {doc.source_lang, doc.target_lang})

\* C23: in the file written, the <tu> of a row that has its origin <tu>
\* holds the extra-language <tuv> found when the row was parsed, each once,
\* unchanged and in their order, whatever was edited in the row.
C23_ExtraTuvsWritten ==
    codec.pc = "written"
        => \A i \in 1..Len(codec.saved) :
               codec.saved[i].tu_element # None
                   => ExtraTuvsOf(tree.tus[i]) = codec.saved[i].extra_tuvs

(***************************************************************************)
(* Properties of the parser (SpecCodec).                                   *)
(***************************************************************************)
\* reference of the language detection: the languages observed are the
\* language attributes counted, in the order of the file
RefCount(ls, l) == Cardinality({i \in 1..Len(ls) : ls[i] = l})

RefFirst(ls, l) == CHOOSE i \in 1..Len(ls) : ls[i] = l /\ \A j \in 1..(i - 1) : ls[j] # l

\* the most frequent language of S, of equally frequent ones the first seen
RefMostFrequent(ls, S) ==
    CHOOSE l \in S : \A m \in S \ {l} :
        \/ RefCount(ls, l) > RefCount(ls, m)
        \/ RefCount(ls, l) = RefCount(ls, m) /\ RefFirst(ls, l) < RefFirst(ls, m)

\* blankIsAbsent: a srclang that is empty after trimming counts as no srclang
RefLanguages(t, blankIsAbsent) ==
    LET ls == CountedLangs(t)
        observed == {ls[i] : i \in 1..Len(ls)}
        declared == normalize_lang(t.header.srclang)
        present == t.header.present /\ t.header.srclang # <<>>
        useHeader == /\ present
                     /\ declared # LangAll
                     /\ blankIsAbsent => declared # <<>>
        source == IF useHeader THEN declared ELSE RefMostFrequent(ls, observed)
        rest == observed \ {source}
    IN  IF observed = {} THEN <<LangEn, LangTh>>
        ELSE IF Cardinality(observed) = 1
        THEN <<CHOOSE l \in observed : TRUE, LangUnknown>>
        ELSE <<source, IF rest = {} THEN LangUnknown ELSE RefMostFrequent(ls, rest)>>

Detected == <<doc.source_lang, doc.target_lang>>

C25_MalformedXmlRaises ==
    ~tree.wellformed
        => /\ codec.pc \in {"file", "failed"}
           /\ codec.pc = "failed" => codec.error = "XMLSyntaxError"
           /\ doc = None
           /\ rows = <<>>

\* parse_tmx has been called on a file that is not well-formed
C25_Witness == ~tree.wellformed /\ codec.pc = "failed"

\* C26: parse_tmx of a well-formed file raises ValueError and returns no
\* document when the root's local name, lower-cased, is not tmx or the file
\* has no <body>; of a well-formed file with a tmx root and a <body> it
\* returns a document.
C26_StructuralErrorIffRootOrBody ==
    (tree.wellformed /\ codec.pc \in {"parsed", "reparsed", "failed"})
        => IF root_tag(tree) # TagTmx \/ ~tree.body
           THEN codec.pc = "failed" /\ codec.error = "ValueError" /\ doc = None
           ELSE codec.pc # "failed" /\ doc # None

(***************************************************************************)
(* Properties of the backup and of the temporary file (SpecWrite).         *)
(***************************************************************************)
BackupDue == w.backup /\ w.before.exists

\* C27: with backup requested and a destination that exists, the .bak file
\* holds the destination's previous content from before the rename on, and
\* so after a successful write; without backup requested, or with no
\* destination, the .bak path is never created or changed.
C27_BackupBeforeRename ==
    /\ (BackupDue /\ w.pc \in {"replace", "returned"}) => fs.bak = w.before
    /\ ~BackupDue => fs.bak = w.bak_before

\* a write with backup has returned, the .bak file having been replaced
C27_Witness ==
    /\ w.pc = "returned"
    /\ BackupDue
    /\ w.bak_before # w.before
    /\ fs.bak = w.before
    /\ fs.dest = File(w.xml_bytes)

\* C28: when write_tmx has raised or returned, the temporary file does not
\* exist.
C28_NoTempFileLeft == w.pc \in {"raised", "returned"} => ~fs.tmp.exists

(***************************************************************************)
(* Properties of the macro of Replace All (Spec).                          *)
(***************************************************************************)
\* the cell a child of the macro edits
ChildCell(e) == <<e.row, e.col>>

\* the texts of rs with the cell of every child holding the child's new text
TextsAfterChildren(rs, children) ==
    [i \in 1..Len(rs) |->
        [c \in 1..2 |->
            IF \E k \in 1..Len(children) : ChildCell(children[k]) = <<i - 1, c - 1>>
            THEN LET k == CHOOSE k \in 1..Len(children) :
                              ChildCell(children[k]) = <<i - 1, c - 1>>
                 IN  children[k].new
            ELSE Texts(rs)[i][c]]]

\* C29: the commands Replace All pushes are one entry of the undo stack.
\* While that entry is undone every cell holds the text it had before the
\* macro; while it is applied, after the push as after a redo, every
\* child's cell holds the child's new text and every other cell the text
\* from before the macro.  Every child holds as old text the text of its
\* cell before the macro, and no two children edit the same cell.
C29_MacroIsOneStep ==
    /\ (index < Len(stack) /\ stack[index + 1].type = "Macro")
           => Texts(rows) = Texts(snaps[index + 1])
    /\ (index > 0 /\ stack[index].type = "Macro")
           => LET children == stack[index].children
              IN  /\ Texts(rows) = TextsAfterChildren(snaps[index], children)
                  /\ \A k \in 1..Len(children) :
                         /\ children[k].type = "Edit"
                         /\ children[k].old = get_cell(snaps[index], children[k].row,
                                                       children[k].col)
                         /\ \A j \in 1..Len(children) :
                                ChildCell(children[j]) = ChildCell(children[k]) => j = k

\* a macro of two children that changed both cells of a row was undone
C29_Witness ==
    /\ index = 0
    /\ Len(stack) > 0
    /\ stack[1].type = "Macro"
    /\ Len(stack[1].children) = 2
    /\ \A k \in 1..2 : stack[1].children[k].new # stack[1].children[k].old
    /\ Texts(rows) = Texts(snaps[1])
    /\ rows[1].source_modified /\ rows[1].target_modified

(***************************************************************************)
(* Properties of undo() before any do() (SpecCmd).                         *)
(***************************************************************************)
\* undo() was called on a command never applied, and returned / raised
UndoneUnapplied == phase = "undone_unapplied"
UndoUnappliedRaised == phase = "undo_raised"

\* C30 (as stated): undo() on a command never applied raises and leaves the
\* document unchanged, whatever the type of the command.
C30_UndoUnappliedFailsFast ==
    /\ ~UndoneUnapplied
    /\ UndoUnappliedRaised => rows = pre

\* the texts of pre with cells (row, col) and (target, col) exchanged, target
\* counted from the end when negative
TextsExchanged(rs, row, col, target) ==
    LET t == PyIndex(Len(rs), target)
    IN  [i \in 1..Len(rs) |->
            [c \in 1..2 |->
                IF c = col + 1 /\ i = row + 1 THEN Texts(rs)[t][c]
                ELSE IF c = col + 1 /\ i = t THEN Texts(rs)[row + 1][c]
                ELSE Texts(rs)[i][c]]]

\* C30 (amended): undo() on a command never applied raises, leaving the
\* document unchanged, for a delete (assertion), for a split whose row is
\* the last row and for a move past the last row (IndexError).  Otherwise
\* it returns: a split has removed row row+1, a move has exchanged the two
\* cells, an edit has written its old text, and a merge has rewritten its
\* two cells with the texts they held, which sets their modified flags.
C30_UndoUnappliedOutcome ==
    /\ UndoUnappliedRaised
           => /\ rows = pre
              /\ \/ cmd.type = "Delete"
                 \/ cmd.type = "Split" /\ cmd.row + 1 >= Len(pre)
                 \/ cmd.type = "Move" /\ cmd.row + cmd.direction >= Len(pre)
    /\ UndoneUnapplied
           => CASE cmd.type = "Split" ->
                       /\ Len(rows) = Len(pre) - 1
                       /\ get_cell(rows, cmd.row, cmd.col) = cmd.original_text
                [] cmd.type = "Merge" ->
                       /\ Texts(rows) = Texts(pre)
                       /\ Modified(rows[cmd.row + 1], cmd.col)
                       /\ Modified(rows[cmd.row + 2], cmd.col)
                [] cmd.type = "Move" ->
                       Texts(rows) = TextsExchanged(pre, cmd.row, cmd.col,
                                                    cmd.row + cmd.direction)
                [] cmd.type = "Edit" ->
                       Texts(rows) = TextsWith(pre, cmd.row, cmd.col, cmd.old)
                [] OTHER -> FALSE

\* undo() of a split never applied returned and the document has lost a row
C30_Witness ==
    /\ UndoneUnapplied
    /\ cmd.type = "Split"
    /\ Len(pre) = 2
    /\ Len(rows) = 1
    /\ Texts(pre)[2] # <<<<>>, <<>>>>
(***************************************************************************)
(* Properties of the rows parse_tmx builds (SpecCodec).                    *)
(***************************************************************************)
\* rows holds what parse_tmx returned for tree
JustParsed ==
    \/ codec.pc = "parsed" /\ ~codec.edited
    \/ codec.pc = "reparsed"

\* the <tuv> of tu whose language is neither the source nor the target
OtherLanguageTuvs(tu) ==
    SelectSeq(tu.tuvs, LAMBDA v : normalize_lang(v.lang) # doc.source_lang
                                   /\ normalize_lang(v.lang) # doc.target_lang)

\* C31: in the row parse_tmx makes of a <tu>, the text of every <tuv> of
\* the source language is the row's source, the text of every <tuv> of the
\* target language is the row's target, and the other <tuv> are the row's
\* extra_tuvs, each once and in document order: no text of a <tuv> is lost.
C31_EveryTuvAccounted ==
    JustParsed
        => \A i \in 1..Len(tree.tus) :
               /\ \A j \in 1..Len(tree.tus[i].tuvs) :
                      LET tuv == tree.tus[i].tuvs[j]
                          normalized == normalize_lang(tuv.lang)
                      IN  /\ normalized = doc.source_lang
                                 => rows[i].source = seg_text(tuv)
                          /\ (normalized # doc.source_lang
                                 /\ normalized = doc.target_lang)
                                 => rows[i].target = seg_text(tuv)
               /\ rows[i].extra_tuvs = OtherLanguageTuvs(tree.tus[i])

(***************************************************************************)
(* Properties of the header write_tmx emits (SpecCodec).                   *)
(***************************************************************************)
\* the attributes of a header made by write_tmx, srclang aside
DefaultHeaderAttribs ==
    [creationtool |-> "TMXEditor", creationtoolversion |-> "0.1.0",
     segtype |-> "sentence", adminlang |-> "en", datatype |-> "plaintext"]
        @@ ("o-tmf" :> "TMXEditor")

\* C32: the header of the file written has srclang equal to the
\* document's source language; with a preserved header element its other
\* attributes and its children are those of the preserved element, and
\* without one the header carries the default attributes and no child.
C32_HeaderWritten ==
    codec.pc = "written"
        => /\ tree.header.present
           /\ tree.header.srclang = doc.source_lang
           /\ IF doc.header_element.present
              THEN /\ tree.header.attribs = doc.header_element.attribs
                   /\ tree.header.children = doc.header_element.children
              ELSE /\ tree.header.attribs = DefaultHeaderAttribs
                   /\ tree.header.children = <<>>

\* a document whose preserved header names another source language than
\* the document's was written
C32_Witness ==
    /\ codec.pc = "written"
    /\ doc.header_element.present
    /\ doc.header_element.srclang # doc.source_lang
    /\ doc.header_element.children # <<>>
    /\ tree.header.srclang = doc.source_lang

(***************************************************************************)
(* Properties of the commands the session constructs (Spec).               *)
(***************************************************************************)
\* the caller precondition of command c on the document rs it is built on
CallerPrecondition(rs, c) ==
    /\ 0 <= c.row /\ c.row < Len(rs)
    /\ c.type = "Split"
           => 0 < c.pos /\ c.pos < Len(get_cell(rs, c.row, c.col))
    /\ c.type = "Merge"
           => /\ c.row + 1 < Len(rs)
              /\ ~(get_cell(rs, c.row, c.col) = <<>>
                     /\ get_cell(rs, c.row + 1, c.col) = <<>>)
    /\ c.type = "Move"
           => 0 <= c.row + c.direction /\ c.row + c.direction < Len(rs)
    /\ c.type = "Delete"
           => rs[c.row + 1].source = <<>> /\ rs[c.row + 1].target = <<>>

\* C33: every split, merge, move and delete on the undo stack was
\* constructed on a document in which its caller precondition held: the
\* split position is inside the cell text, the merge has a row below and
\* not two empty cells, the move stays inside the document and the row
\* deleted held no text.
C33_SessionPreconditions ==
    \A k \in 1..Len(stack) :
        stack[k].type \in {"Split", "Merge", "Move", "Delete"}
            => CallerPrecondition(snaps[k], stack[k])

\* a row emptied by an edit was deleted
C33_Witness ==
    /\ index = 2
    /\ stack[1].type = "Edit"
    /\ stack[2].type = "Delete"
    /\ stack[2].row = stack[1].row
    /\ Len(rows) = Len(snaps[2]) - 1

(***************************************************************************)
(* Properties of the row a merge or a delete removes (SpecCmd).            *)
(***************************************************************************)
\* the index, counted from 1, of the row the command removed in redo()
RemovedAt == IF cmd.type = "Merge" THEN cmd.row + 2 ELSE cmd.row + 1

\* the command removed a row of the document, its row arguments being rows
\* of the document
RemovedARow ==
    /\ cmd.type \in {"Merge", "Delete"}
    /\ cmd.type = "Merge" => cmd.row_removed
    /\ 0 <= cmd.row
    /\ RemovedAt <= Len(pre)

\* C34: after undo() of a merge that removed row row+1, or of a delete,
\* the row at the index of the removed row is the row that was there before
\* do(): the same tu_element, extra_tuvs, texts and modified flags; the
\* command held that row while it was applied.
C34_RemovedRowIsBack ==
    RemovedARow
        => /\ Applied => cmd.removed_row = pre[RemovedAt]
           /\ phase = "undone"
                  => /\ Len(rows) = Len(pre)
                     /\ rows[RemovedAt] = pre[RemovedAt]

\* a merge removed a parsed row that has an extra <tuv> and a modified
\* flag set, and was undone
C34_Witness ==
    /\ phase = "undone"
    /\ cmd.type = "Merge"
    /\ cmd.row_removed
    /\ cmd.row = 0
    /\ Len(pre) = 2
    /\ pre[2].tu_element # None
    /\ pre[2].extra_tuvs # <<>>
    /\ pre[2].source_modified
    /\ pre[1] # pre[2]
    /\ rows[2] = pre[2]

(***************************************************************************)
(* Properties of the characters split and merge keep (SpecCmd).            *)
(***************************************************************************)
\* the characters of column col in row order, spaces left out
Letters(rs, col) == SelectSeq(Join(Column(rs, col)), LAMBDA ch : ch # " ")

\* the number of spaces in column col
Spaces(rs, col) == Len(Join(Column(rs, col))) - Len(Letters(rs, col))

\* C35: after do(), undo() and redo() of a split or a merge, each column
\* read in row order with its spaces left out is what it was before do();
\* the column differs by one space at most, and the document by one row at
\* most.
C35_LettersKept ==
    (cmd.type \in {"Split", "Merge"} /\ phase \in {"applied", "undone", "reapplied"})
        => /\ \A col \in {0, 1} :
                  /\ Letters(rows, col) = Letters(pre, col)
                  /\ Spaces(rows, col) - Spaces(pre, col) \in {0 - 1, 0, 1}
           /\ Len(rows) - Len(pre) \in {0 - 1, 0, 1}

\* a split between two spaces was redone: the space after the position
\* is gone, the letters are kept
C35_Witness ==
    /\ phase = "reapplied"
    /\ cmd.type = "Split"
    /\ cmd.original_text = <<"a", " ", " ", "b">>
    /\ cmd.pos = 2
    /\ Spaces(rows, cmd.col) = Spaces(pre, cmd.col) - 1
    /\ Letters(rows, cmd.col) = Letters(pre, cmd.col)

(***************************************************************************)
(* Properties of the modified flags after an undo (SpecCmd).               *)
(***************************************************************************)
\* the rows, counted from 1, whose cell in column cmd.col the command
\* wrote with set_cell in redo() and undo(); post.cmd is the command as
\* redo() left it
WrittenRows ==
    CASE cmd.type = "Split" ->
             {cmd.row + 1} \cup (IF post.cmd.filled_existing THEN {cmd.row + 2} ELSE {})
      [] cmd.type = "Merge" ->
             {cmd.row + 1} \cup (IF post.cmd.row_removed THEN {} ELSE {cmd.row + 2})
      [] cmd.type = "Move" ->
             {cmd.row + 1, PyIndex(Len(pre), cmd.row + cmd.direction)}
      [] cmd.type = "Edit" -> {cmd.row + 1}
      [] OTHER -> {}

\* after do(); undo() every cell the command wrote is flagged modified and
\* holds its text from before do(), and the rows differ from those before
\* do() when one of these flags was not set
FlagsStayTextsReturn ==
    /\ \A i \in WrittenRows :
           /\ Modified(rows[i], cmd.col)
           /\ CellText(rows[i], cmd.col) = CellText(pre[i], cmd.col)
    /\ (\E i \in WrittenRows : ~Modified(pre[i], cmd.col)) => rows # pre

\* C36 as stated: for every split, merge, move and edit.
C36_UndoKeepsFlagsAnyCommand ==
    (phase = "undone" /\ cmd.type \in {"Split", "Merge", "Move", "Edit"})
        => FlagsStayTextsReturn

\* C36 amended: for split, merge and move, and for an edit whose old_text
\* is the text the cell held, do(); undo() leaves every cell the command
\* wrote flagged modified with its text from before do(), so the rows
\* differ from those before do() whenever one of these flags was not set.
C36_UndoKeepsFlags ==
    (phase = "undone" /\ cmd.type \in {"Split", "Merge", "Move", "Edit"}
        /\ EditOldIsCurrent)
        => FlagsStayTextsReturn

\* a merge that kept the row below was undone: texts as before, the two
\* cells it wrote flagged, the rows not those before do()
C36_Witness ==
    /\ phase = "undone"
    /\ cmd.type = "Merge"
    /\ ~post.cmd.row_removed
    /\ Texts(rows) = Texts(pre)
    /\ \A i \in WrittenRows : ~Modified(pre[i], cmd.col) /\ Modified(rows[i], cmd.col)
    /\ rows # pre

(***************************************************************************)
(* Properties of the languages of a parsed document (SpecCodec).           *)
(***************************************************************************)
\* C37: the source language and the target language of a document
\* parse_tmx returned are different.
C37_SourceIsNotTarget == doc # None => doc.source_lang # doc.target_lang

(***************************************************************************)
(* Properties of load and save in a session (SpecFile).                    *)
(***************************************************************************)
LastOp(op, ok) == win.last.op = op /\ win.last.ok = ok

\* C38: when load_file has returned True the undo stack holds no command,
\* nothing can be undone or redone and the stack is clean, the window not
\* dirty; when it has returned False the document, the undo stack, its
\* index and clean index, the dirty flag and the path are what they were.
C38_LoadResetsHistory ==
    /\ LastOp("load", TRUE)
           => /\ stack = <<>>
              /\ index = 0
              /\ win.clean_index = index
              /\ ~win.dirty
    /\ LastOp("load", FALSE)
           => Before = win.last.before

\* a file was loaded over a document that had an undone and an applied
\* command and was dirty
C38_Witness ==
    /\ LastOp("load", TRUE)
    /\ Len(win.last.before.stack) = 2
    /\ win.last.before.index = 1
    /\ win.last.before.dirty
    /\ stack = <<>>

\* C39 as stated: the window is dirty exactly when the index of the undo
\* stack is not the index at the last successful save or load.
C39_DirtyIffIndexDiffers == win.dirty <=> index # win.saved_at

\* C39 amended: the window is dirty exactly when the undo stack is not at
\* its clean index.  The clean index is the index at the last successful
\* save or load, until a push drops the saved state from the stack after
\* it was undone: from then on there is no clean index and the window is
\* dirty at every index.  A failed save or load changes neither.
C39_DirtyIffNotClean ==
    /\ win.dirty <=> index # win.clean_index
    /\ win.clean_index \in {win.saved_at, 0 - 1}
    /\ win.clean_index = 0 - 1 => win.saved_at > 0
    /\ (win.last.op \in {"save", "save_as"} /\ ~win.last.ok)
           => /\ win.dirty = win.last.before.dirty
              /\ win.clean_index = win.last.before.clean_index

\* the document was saved after a command, the command undone and another
\* pushed: the index is the saved one and the window is dirty
C39_Witness ==
    /\ index = win.saved_at
    /\ index > 0
    /\ win.clean_index = 0 - 1
    /\ win.dirty

\* C40: when the write of Save As has failed, the document's file_path is
\* the one it had before Save As.
C40_FailedSaveAsKeepsPath ==
    LastOp("save_as", FALSE) => win.file_path = win.last.before.file_path

====
